---- MODULE Spec2Model ----
(***************************************************************************)
(* A model of the trust-manager CSI driver's atomic directory projection   *)
(* (AtomicWriter.Write), of the volume state store and of the handlers     *)
(* that drive them (NodePublishVolume, Reconcile).                         *)
(*                                                                         *)
(* Strings the code takes apart (payload keys, relative paths) are         *)
(* sequences of one-character strings, so that strings.Split,              *)
(* filepath.Clean and the length checks are computed, not assumed.         *)
(***************************************************************************)
EXTENDS Integers, Sequences, FiniteSets, TLC

VARIABLES
    dir,        \* per volume: the data directory AtomicWriter projects into
    w,          \* per process: the locals of its AtomicWriter.Write call
    h,          \* per process: history of its calls (for stating properties)
    bundle,     \* the current content version of the source bundle
    st,         \* the volume state store (State)
    drv         \* per process: the locals of its driver handler

vars == <<dir, w, h, bundle, st, drv>>

(***************************************************************************)
(* Program constants                                                       *)
(***************************************************************************)
maxFileNameLength == 255
maxPathLength == 4096
PathSeparator == "/"

\* os.ModePerm-independent file modes are kept as their octal spelling
Nil == "nil"

(***************************************************************************)
(* Strings                                                                 *)
(***************************************************************************)
Rep(c, n) == [i \in 1..n |-> c]

\* strings.Split(s, "/"): n separators give n+1 items, empty ones included
RECURSIVE Split(_)
Split(s) ==
    LET seps == {i \in 1..Len(s) : s[i] = PathSeparator}
    IN  IF seps = {} THEN <<s>>
        ELSE LET i == CHOOSE j \in seps : \A k \in seps : j <= k
             IN  <<SubSeq(s, 1, i - 1)>> \o Split(SubSeq(s, i + 1, Len(s)))

\* strings.Join(items, "/")
RECURSIVE JoinPath(_)
JoinPath(items) ==
    IF Len(items) = 0 THEN <<>>
    ELSE IF Len(items) = 1 THEN items[1]
    ELSE items[1] \o <<PathSeparator>> \o JoinPath(Tail(items))

HasPrefix(s, p) == Len(s) >= Len(p) /\ SubSeq(s, 1, Len(p)) = p

DotDot == <<".", ".">>
Dot == <<".">>

\* the element stack filepath.Clean builds: "" and "." elements are dropped,
\* ".." removes the element before it (or stays, at the start of a relative
\* path)
RECURSIVE CleanItems(_, _, _)
CleanItems(items, out, rooted) ==
    IF Len(items) = 0 THEN out
    ELSE LET x == Head(items)
             rest == Tail(items)
         IN  IF x = <<>> \/ x = Dot THEN CleanItems(rest, out, rooted)
             ELSE IF x = DotDot
                  THEN IF Len(out) > 0 /\ out[Len(out)] # DotDot
                       THEN CleanItems(rest, SubSeq(out, 1, Len(out) - 1), rooted)
                       ELSE IF rooted THEN CleanItems(rest, out, rooted)
                            ELSE CleanItems(rest, Append(out, x), rooted)
                  ELSE CleanItems(rest, Append(out, x), rooted)

\* filepath.Clean
Clean(p) ==
    LET rooted == Len(p) > 0 /\ p[1] = PathSeparator
        out == CleanItems(Split(p), <<>>, rooted)
    IN  IF rooted THEN <<PathSeparator>> \o JoinPath(out)
        ELSE IF Len(out) = 0 THEN Dot
        ELSE JoinPath(out)

(***************************************************************************)
(* validatePath                                                            *)
(***************************************************************************)
\* the first item the loop of validatePath rejects, 0 when there is none
FirstBadItem(items) ==
    LET bad == {i \in 1..Len(items) :
                   items[i] = DotDot \/ Len(items[i]) > maxFileNameLength}
    IN  IF bad = {} THEN 0 ELSE CHOOSE i \in bad : \A j \in bad : i <= j

\* validatePath without its path.IsAbs test
validatePathNoIsAbs(targetPath) ==
    IF targetPath = <<>> THEN "ErrEmpty"
    ELSE IF Len(targetPath) > maxPathLength THEN "ErrPathLength"
    ELSE IF FirstBadItem(Split(targetPath)) # 0 THEN "ErrDotDot"
    ELSE Nil

validatePath(targetPath) ==
    IF targetPath = <<>> THEN "ErrEmpty"
    ELSE IF targetPath[1] = PathSeparator THEN "ErrAbsolute"
    ELSE IF Len(targetPath) > maxPathLength THEN "ErrPathLength"
    ELSE LET items == Split(targetPath)
             b == FirstBadItem(items)
         IN  IF b # 0
             THEN IF items[b] = DotDot THEN "ErrDotDot" ELSE "ErrNameLength"
             ELSE IF HasPrefix(items[1], DotDot) /\ Len(items[1]) > 2
                  THEN "ErrDotDotPrefix"
                  ELSE Nil

(***************************************************************************)
(* validatePayload                                                         *)
(***************************************************************************)
\* A payload is a function from keys to FileProjection records
\* [Data, Mode, FsUser, FsGroup]; FsUser and FsGroup are Nil or an id.
PayloadError(payload) ==
    LET bad == {k \in DOMAIN payload : validatePath(k) # Nil}
    IN  IF bad = {} THEN Nil ELSE "ErrInvalidPayload"

\* cleanPayload[filepath.Clean(k)] = content, for k in map order: when two
\* keys clean to the same path the one visited last stays, and Go visits a
\* map in an unspecified order. The set of the maps the loop can build.
CleanPayloads(payload) ==
    LET cleaned == {Clean(k) : k \in DOMAIN payload}
    IN  {cp \in [cleaned -> {payload[k] : k \in DOMAIN payload}] :
            \A c \in cleaned :
                \E k \in DOMAIN payload : Clean(k) = c /\ cp[c] = payload[k]}

(***************************************************************************)
(* The target directory                                                    *)
(*   exists   the directory exists                                         *)
(*   snaps    timestamped directories: name -> tree                        *)
(*   data     text of the ..data symlink (a timestamped name), or NoLink   *)
(*   tmp      text of the ..data_tmp symlink, or NoLink                    *)
(*   visible  names of the user-visible symlinks name -> ..data/name       *)
(*   nextTs   the next name os.MkdirTemp hands out                         *)
(* A tree maps the path of a node (its sequence of elements, relative to   *)
(* the timestamped directory) to [kind |-> "dir"] or to a file record.     *)
(***************************************************************************)
TsName(n) == <<n>>        \* a timestamped directory name, unique per MkdirTemp
NoLink == <<>>
VisLink == <<0>>          \* the text of a user-visible symlink under a reserved name
dataDirName == <<".", ".", "d", "a", "t", "a">>
newDataDirName == <<".", ".", "d", "a", "t", "a", "_", "t", "m", "p">>
DefaultID == "proc"     \* owner of a file nobody chowned

EmptyTree == <<>>
DirNode == [kind |-> "dir"]
FileNode(fp) ==
    [kind |-> "file", data |-> fp.Data, mode |-> fp.Mode,
     uid |-> IF fp.FsUser = Nil THEN DefaultID ELSE fp.FsUser,
     gid |-> IF fp.FsUser = Nil \/ fp.FsGroup = Nil THEN DefaultID ELSE fp.FsGroup]

EmptyDir ==
    [exists |-> TRUE, snaps |-> <<>>, data |-> NoLink, tmp |-> NoLink,
     visible |-> {}, nextTs |-> 1]

\* the elements of filepath.Join(dir, key) below dir
Segs(key) == IF key = Dot THEN <<>> ELSE Split(key)

Prefixes(segs) == {SubSeq(segs, 1, i) : i \in 1..Len(segs)}
ProperPrefixes(segs) == Prefixes(segs) \ {segs}

\* what os.Lstat finds at dir/segs
Lstat(d, ts, segs) ==
    IF ts = VisLink /\ d.exists THEN "ELOOP"
    ELSE IF ~d.exists \/ ts \notin DOMAIN d.snaps THEN "ENOENT"
    ELSE LET tree == d.snaps[ts]
         IN  IF segs = <<>> THEN "dir"
             ELSE IF segs \in DOMAIN tree THEN tree[segs].kind
             ELSE IF \E q \in ProperPrefixes(segs) :
                        q \in DOMAIN tree /\ tree[q].kind = "file"
                  THEN "ENOTDIR"
                  ELSE "ENOENT"

\* shouldWriteFile: "true", "false" or "error"
shouldWriteFile(d, ts, key, content) ==
    LET k == Lstat(d, ts, Segs(key))
    IN  IF k = "ENOENT" THEN "true"
        ELSE IF k = "file"
             THEN IF d.snaps[ts][Segs(key)].data # content THEN "true" ELSE "false"
             ELSE "error"      \* os.ReadFile of a directory, or ENOTDIR

\* shouldWritePayload returns at the first key that wants a write or fails:
\* the results the loop can return, over the orders of the map
shouldWritePayload(payload, d, ts) ==
    LET res == {shouldWriteFile(d, ts, k, payload[k].Data) : k \in DOMAIN payload}
    IN  IF res \subseteq {"false"} THEN {"false"} ELSE res \ {"false"}

\* the relative paths filepath.Walk visits below the old timestamped directory
WalkPaths(d, ts) ==
    IF ~d.exists \/ ts \notin DOMAIN d.snaps THEN {}
    ELSE {JoinPath(n) : n \in DOMAIN d.snaps[ts]}

\* a key and the directories above it, as filepath.Split peels them off
SubPaths(key) == {JoinPath(q) : q \in Prefixes(Split(key))}

\* pathsToRemove that forgets the directories above the payload's keys
pathsToRemoveKeysOnly(payload, d, ts) == WalkPaths(d, ts) \ DOMAIN payload

pathsToRemove(payload, d, ts) ==
    WalkPaths(d, ts) \ UNION {SubPaths(k) : k \in DOMAIN payload}

Restrict(f, S) == [x \in S |-> f[x]]

\* a RemoveAll that is handed the directory ..data points to
RemoveAllCurrent(d, ts) == [d EXCEPT !.snaps = Restrict(@, DOMAIN @ \ {d.data})]

\* os.RemoveAll of a timestamped directory
RemoveAllTs(d, ts) == [d EXCEPT !.snaps = Restrict(@, DOMAIN @ \ {ts})]

\* os.MkdirAll(dir/segs): "ENOTDIR" when an element on the way is a file
MkdirAll(tree, segs) ==
    IF \E q \in Prefixes(segs) : q \in DOMAIN tree /\ tree[q].kind = "file"
    THEN [err |-> "ENOTDIR", tree |-> tree]
    ELSE [err |-> Nil,
          tree |-> [n \in DOMAIN tree \cup Prefixes(segs) |->
                       IF n \in DOMAIN tree THEN tree[n] ELSE DirNode]]

\* is there a directory entry of this name in the target directory
EntryExists(d, name) ==
    \/ name \in d.visible
    \/ name = dataDirName /\ d.data # NoLink
    \/ name = newDataDirName /\ d.tmp # NoLink
    \/ name = Dot

\* userVisiblePath[:slashpos]
LinkName(key) == Split(key)[1]

\* os.Remove(targetDir/name) of an entry that exists
RemoveEntry(d, name) ==
    IF name \in d.visible THEN [d EXCEPT !.visible = @ \ {name}]
    ELSE IF name = dataDirName THEN [d EXCEPT !.data = NoLink]
    ELSE IF name = newDataDirName THEN [d EXCEPT !.tmp = NoLink]
    ELSE d

\* os.Symlink(..data/name, targetDir/name)
CreateEntry(d, name) ==
    IF name = dataDirName THEN [d EXCEPT !.data = VisLink]
    ELSE IF name = newDataDirName THEN [d EXCEPT !.tmp = VisLink]
    ELSE [d EXCEPT !.visible = @ \cup {name}]

\* the os.Symlink calls of the loop of createUserVisibleFiles
RECURSIVE CreateEntries(_, _)
CreateEntries(d, names) ==
    IF names = {} THEN d
    ELSE LET n == CHOOSE x \in names : TRUE
         IN  CreateEntries(CreateEntry(d, n), names \ {n})

\* the os.Remove calls of the loop of removeUserVisiblePaths
RECURSIVE RemoveEntries(_, _)
RemoveEntries(d, names) ==
    IF names = {} THEN d
    ELSE LET n == CHOOSE x \in names : TRUE
         IN  RemoveEntries(RemoveEntry(d, n), names \ {n})

\* createUserVisibleFiles without an error: a link is made for every payload
\* key whose first element has no entry yet
createUserVisibleFiles(payload, d) ==
    CreateEntries(d,
             {LinkName(k) : k \in DOMAIN payload} \ {n \in
                 {LinkName(k) : k \in DOMAIN payload} : EntryExists(d, n)})

\* removeUserVisiblePaths: only names without a separator are removed
TopLevel(paths) == {p \in paths : \A i \in 1..Len(p) : p[i] # PathSeparator}

\* the names os.Remove fails on (lasterr)
RemoveFailures(paths, d) == {p \in TopLevel(paths) : ~EntryExists(d, p) \/ p = Dot}

removeUserVisiblePaths(paths, d) ==
    RemoveEntries(d, TopLevel(paths) \ RemoveFailures(paths, d))

(***************************************************************************)
(* AtomicWriter.Write, one action per step of the algorithm (a step is one *)
(* filesystem operation or one loop over the payload).  `fail` is an I/O   *)
(* error injected into the step's filesystem operation; the errors the     *)
(* filesystem state itself causes (EEXIST, ENOENT, EISDIR, ENOTDIR) are    *)
(* computed.                                                               *)
(***************************************************************************)
IdleW ==
    [pc |-> "idle", target |-> Nil, payload |-> <<>>, hook |-> FALSE,
     oldTsDir |-> NoLink, oldTsPath |-> NoLink, pathsToRemove |-> {},
     tsDir |-> NoLink, todo |-> {}, ret |-> Nil, errAt |-> Nil]

Err(ws, at) == [ws EXCEPT !.pc = "done", !.ret = "error", !.errAt = at]

Set(self, d2, w2) ==
    /\ dir' = [dir EXCEPT ![w[self].target] = d2]
    /\ w' = [w EXCEPT ![self] = w2]

\* (1) validatePayload
WriteBegin(self, target, payload, hook) ==
    /\ w[self].pc \in {"idle", "done"}
    /\ LET ws == [IdleW EXCEPT !.target = target, !.hook = hook]
       IN  IF PayloadError(payload) # Nil
           THEN w' = [w EXCEPT ![self] = Err(ws, "validatePayload")]
           ELSE \E cp \in CleanPayloads(payload) :
                    w' = [w EXCEPT ![self] =
                             [ws EXCEPT !.pc = "Readlink", !.payload = cp]]
    /\ UNCHANGED dir

\* (2) os.Readlink(..data)
Readlink(self, fail) ==
    LET ws == w[self]
        d == dir[ws.target]
    IN  /\ ws.pc = "Readlink"
        /\ UNCHANGED dir
        /\ IF fail THEN w' = [w EXCEPT ![self] = Err(ws, "Readlink")]
           ELSE IF ~d.exists \/ d.data = NoLink
                THEN w' = [w EXCEPT ![self].pc = "newTimestampDir"]
                ELSE w' = [w EXCEPT ![self].pc = "pathsToRemove",
                                    ![self].oldTsDir = d.data,
                                    ![self].oldTsPath = d.data]

\* (3) pathsToRemove: the visitor swallows every error of the walk
PathsToRemoveStep(self) ==
    LET ws == w[self]
        d == dir[ws.target]
    IN  /\ ws.pc = "pathsToRemove"
        /\ UNCHANGED dir
        /\ w' = [w EXCEPT ![self].pc = "shouldWritePayload",
                          ![self].pathsToRemove =
                              pathsToRemove(ws.payload, d, ws.oldTsPath)]

\* a step 4 that takes the fast path whenever no content differs, whatever
\* there is to remove
ShouldWriteStepIgnoringRemovals(self, fail) ==
    LET ws == w[self]
        d == dir[ws.target]
    IN  /\ ws.pc = "shouldWritePayload"
        /\ UNCHANGED dir
        /\ IF fail THEN w' = [w EXCEPT ![self] = Err(ws, "shouldWritePayload")]
           ELSE \E r \in shouldWritePayload(ws.payload, d, ws.oldTsPath) :
                    IF r = "error"
                    THEN w' = [w EXCEPT ![self] = Err(ws, "shouldWritePayload")]
                    ELSE IF r = "false"
                         THEN w' = [w EXCEPT ![self].pc = "createUserVisibleFiles",
                                             ![self].oldTsDir = NoLink]
                         ELSE w' = [w EXCEPT ![self].pc = "newTimestampDir"]

\* (4) shouldWritePayload, and the fast path of an up-to-date directory
ShouldWriteStep(self, fail) ==
    LET ws == w[self]
        d == dir[ws.target]
    IN  /\ ws.pc = "shouldWritePayload"
        /\ UNCHANGED dir
        /\ IF fail THEN w' = [w EXCEPT ![self] = Err(ws, "shouldWritePayload")]
           ELSE \E r \in shouldWritePayload(ws.payload, d, ws.oldTsPath) :
                    IF r = "error"
                    THEN w' = [w EXCEPT ![self] = Err(ws, "shouldWritePayload")]
                    ELSE IF r = "false" /\ ws.pathsToRemove = {}
                         THEN w' = [w EXCEPT ![self].pc = "createUserVisibleFiles",
                                             ![self].oldTsDir = NoLink]
                         ELSE w' = [w EXCEPT ![self].pc = "newTimestampDir"]

AfterWritePayload(ws) == IF ws.hook THEN "setPerms" ELSE "Symlink"

\* a loop of writePayloadToDir that returns after its first entry
LoopEndsAfterFirst(ws, key) == TRUE

\* the loop of writePayloadToDir ends when every entry has been written
PayloadWritten(ws, key) == ws.todo = {key}

\* (5) newTimestampDir: os.MkdirTemp, os.Chmod
NewTimestampDir(self, fail) ==
    LET ws == w[self]
        d == dir[ws.target]
        ts == TsName(d.nextTs)
    IN  /\ ws.pc = "newTimestampDir"
        /\ IF fail \/ ~d.exists
           THEN Set(self, d, Err(ws, "newTimestampDir"))
           ELSE Set(self,
                    [d EXCEPT !.snaps = (ts :> EmptyTree) @@ @, !.nextTs = @ + 1],
                    [ws EXCEPT !.tsDir = ts, !.todo = DOMAIN ws.payload,
                               !.pc = IF DOMAIN ws.payload = {}
                                      THEN AfterWritePayload(ws)
                                      ELSE "writePayloadToDir"])

\* (6) writePayloadToDir, one payload entry per step, in the order of the map:
\* os.MkdirAll(baseDir), os.WriteFile, os.Chmod, chown
WritePayloadEntry(self, key, fail) ==
    LET ws == w[self]
        d == dir[ws.target]
        segs == Segs(key)
        base == IF segs = <<>> THEN <<>> ELSE SubSeq(segs, 1, Len(segs) - 1)
        tree == IF ws.tsDir \in DOMAIN d.snaps THEN d.snaps[ws.tsDir] ELSE EmptyTree
        mk == MkdirAll(tree, base)
        made == mk.tree
        \* MkdirAll also brings back a target or timestamped directory that
        \* is gone; for the key "." baseDir is the target directory itself
        dm(t) == IF segs = <<>> /\ ws.tsDir \notin DOMAIN d.snaps
                 THEN [d EXCEPT !.exists = TRUE]
                 ELSE [d EXCEPT !.exists = TRUE,
                                !.snaps = (ws.tsDir :> t) @@ @]
    IN  /\ ws.pc = "writePayloadToDir"
        /\ key \in ws.todo
        /\ IF fail THEN Set(self, d, Err(ws, "writePayloadToDir"))
           ELSE IF mk.err # Nil THEN Set(self, d, Err(ws, "writePayloadToDir"))
           ELSE IF segs = <<>> \/ (segs \in DOMAIN made /\ made[segs].kind = "dir")
                THEN Set(self, dm(made), Err(ws, "writePayloadToDir"))
                ELSE Set(self,
                         dm((segs :> FileNode(ws.payload[key])) @@ made),
                         [ws EXCEPT !.todo = @ \ {key},
                                    !.pc = IF PayloadWritten(ws, key)
                                           THEN AfterWritePayload(ws)
                                           ELSE "writePayloadToDir"])

\* (7) the setPerms hook
SetPerms(self, fail) ==
    LET ws == w[self]
    IN  /\ ws.pc = "setPerms"
        /\ UNCHANGED dir
        /\ IF fail THEN w' = [w EXCEPT ![self] = Err(ws, "setPerms")]
           ELSE w' = [w EXCEPT ![self].pc = "Symlink"]

\* (8) os.Symlink(tsDirName, ..data_tmp)
Symlink(self, fail) ==
    LET ws == w[self]
        d == dir[ws.target]
    IN  /\ ws.pc = "Symlink"
        /\ IF fail \/ ~d.exists \/ d.tmp # NoLink
           THEN Set(self, RemoveAllTs(d, ws.tsDir), Err(ws, "Symlink"))
           ELSE Set(self, [d EXCEPT !.tmp = ws.tsDir], [ws EXCEPT !.pc = "Rename"])

\* a step 9 whose failure leaves ..data_tmp and the new directory behind
RenameWithoutCleanup(self, fail) ==
    LET ws == w[self]
        d == dir[ws.target]
    IN  /\ ws.pc = "Rename"
        /\ IF fail \/ ~d.exists \/ d.tmp = NoLink
           THEN Set(self, d, Err(ws, "Rename"))
           ELSE Set(self, [d EXCEPT !.data = d.tmp, !.tmp = NoLink],
                    [ws EXCEPT !.pc = "createUserVisibleFiles"])

\* (9) os.Rename(..data_tmp, ..data)
Rename(self, fail) ==
    LET ws == w[self]
        d == dir[ws.target]
    IN  /\ ws.pc = "Rename"
        /\ IF fail \/ ~d.exists \/ d.tmp = NoLink
           THEN Set(self, RemoveAllTs([d EXCEPT !.tmp = NoLink], ws.tsDir),
                    Err(ws, "Rename"))
           ELSE Set(self, [d EXCEPT !.data = d.tmp, !.tmp = NoLink],
                    [ws EXCEPT !.pc = "createUserVisibleFiles"])

\* (10) createUserVisibleFiles
CreateUserVisibleFiles(self, fail) ==
    LET ws == w[self]
        d == dir[ws.target]
    IN  /\ ws.pc = "createUserVisibleFiles"
        /\ IF fail \/ (~d.exists /\ DOMAIN ws.payload # {})
           THEN Set(self, d, Err(ws, "createUserVisibleFiles"))
           ELSE Set(self, createUserVisibleFiles(ws.payload, d),
                    [ws EXCEPT !.pc = "removeUserVisiblePaths"])

\* (11) removeUserVisiblePaths
RemoveUserVisiblePaths(self, fail) ==
    LET ws == w[self]
        d == dir[ws.target]
    IN  /\ ws.pc = "removeUserVisiblePaths"
        /\ IF fail THEN Set(self, d, Err(ws, "removeUserVisiblePaths"))
           ELSE Set(self, removeUserVisiblePaths(ws.pathsToRemove, d),
                    IF RemoveFailures(ws.pathsToRemove, d) # {}
                    THEN Err(ws, "removeUserVisiblePaths")
                    ELSE [ws EXCEPT !.pc = "RemoveAll"])

\* (12) os.RemoveAll(oldTsPath)
RemoveOld(self, fail) ==
    LET ws == w[self]
        d == dir[ws.target]
    IN  /\ ws.pc = "RemoveAll"
        /\ IF ws.oldTsDir = NoLink
           THEN Set(self, d, [ws EXCEPT !.pc = "done", !.ret = "ok"])
           ELSE IF fail THEN Set(self, d, Err(ws, "RemoveAll"))
           ELSE Set(self, RemoveAllTs(d, ws.oldTsPath),
                    [ws EXCEPT !.pc = "done", !.ret = "ok"])

\* the steps of Write after validation
WriteStep(self, fail) ==
    \/ Readlink(self, fail)
    \/ (~fail /\ PathsToRemoveStep(self))
    \/ ShouldWriteStep(self, fail)
    \/ NewTimestampDir(self, fail)
    \/ \E k \in w[self].todo : WritePayloadEntry(self, k, fail)
    \/ SetPerms(self, fail)
    \/ Symlink(self, fail)
    \/ Rename(self, fail)
    \/ CreateUserVisibleFiles(self, fail)
    \/ RemoveUserVisiblePaths(self, fail)
    \/ (RemoveOld(self, fail) /\ (fail => w[self].oldTsDir # NoLink))

(***************************************************************************)
(* Inputs                                                                  *)
(***************************************************************************)
MaxTs == 2          \* timestamped directories one target directory ever gets

FP(data, mode, user, group) ==
    [Data |-> data, Mode |-> mode, FsUser |-> user, FsGroup |-> group]
F1 == FP("1", "0440", Nil, Nil)
F2 == FP("2", "0440", Nil, Nil)

KeyA == <<"a">>
KeyBC == <<"b", "/", "c">>
KeyAB == <<"a", "/", "b">>
KeyDotA == <<".", "/", "a">>
KeyDot == <<".">>
KeyHidden == <<".", "/", ".", ".", "d", "a", "t", "a">>
KeyEmpty == <<>>
KeyAbs == <<"/", "a", "b", "s", "/", "x">>
KeyUp == <<".", ".", "/", "x">>
KeyLongName == Rep("n", maxFileNameLength + 1)
KeyLongPath ==
    JoinPath([i \in 1..17 |-> Rep("p", 240)]) \o <<"q">>

ValidPayloads ==
    { (KeyA :> F1) @@ (KeyBC :> F2),
      (KeyBC :> F2),
      (KeyA :> F1),
      (KeyA :> F2),
      (KeyA :> FP("1", "0400", Nil, Nil)),
      (KeyA :> FP("1", "0440", "1000", "2000")),
      (KeyA :> F1) @@ (KeyDotA :> F2),
      (KeyA :> F1) @@ (KeyAB :> F2),
      (KeyAB :> F1),
      (KeyDot :> F1),
      (KeyHidden :> F1),
      <<>> }

InvalidPayloads ==
    { (KeyEmpty :> F1),
      (KeyAbs :> F1),
      (KeyUp :> F1),
      (KeyLongName :> F1),
      (KeyLongPath :> F1),
      (KeyA :> F1) @@ (KeyUp :> F2) }

Payloads == ValidPayloads \cup InvalidPayloads

\* the payloads also written with a setPerms hook
HookPayloads == {(KeyA :> F1), (KeyBC :> F2)}

VolumeIDs == {"v1"}
Procs == {"writer"}

(***************************************************************************)
(* Spec: one caller issuing Write calls on one target directory, with I/O  *)
(* errors and process crashes at any step.                                 *)
(*   h.raw      the payload of the current (or just finished) call         *)
(*   h.start    the target directory when that call began                  *)
(*   h.lastOk   the payload of the call before it, if that returned        *)
(*              success                                                    *)
(*   h.same     the call repeats that payload                              *)
(*   h.crashPc  the step at which the process last crashed, until the      *)
(*              call after the crash has returned                          *)
(*   h.faulted  an I/O error was injected into the current call            *)
(***************************************************************************)
NoCall == [ok |-> FALSE, raw |-> <<>>]
IdleH ==
    [raw |-> <<>>, start |-> EmptyDir, lastOk |-> NoCall, same |-> FALSE,
     crashPc |-> Nil, faulted |-> FALSE]

InitWriter ==
    /\ dir = [v \in VolumeIDs |-> EmptyDir]
    /\ w = [p \in Procs |-> IdleW]
    /\ h = IdleH
    /\ bundle = 0
    /\ st = 0
    /\ drv = 0

\* the calls made: every payload without a hook, some with one
Calls ==
    {<<p, FALSE>> : p \in Payloads} \cup {<<p, TRUE>> : p \in HookPayloads}

Call ==
    \E c \in Calls :
        /\ w["writer"].pc = "idle"
        /\ dir["v1"].nextTs <= MaxTs
        /\ WriteBegin("writer", "v1", c[1], c[2])
        /\ h' = [h EXCEPT !.raw = c[1], !.start = dir["v1"],
                          !.same = (h.lastOk = [ok |-> TRUE, raw |-> c[1]]),
                          !.faulted = FALSE]
        /\ UNCHANGED <<bundle, st, drv>>

Step ==
    /\ WriteStep("writer", FALSE)
    /\ UNCHANGED <<h, bundle, st, drv>>

Fault ==
    /\ WriteStep("writer", TRUE)
    /\ h' = [h EXCEPT !.faulted = TRUE]
    /\ UNCHANGED <<bundle, st, drv>>

\* Write has returned to its caller
Return ==
    /\ w["writer"].pc = "done"
    /\ w' = [w EXCEPT !["writer"] = IdleW]
    /\ h' = [IdleH EXCEPT !.lastOk =
                 IF w["writer"].ret = "ok"
                 THEN [ok |-> TRUE, raw |-> h.raw] ELSE NoCall]
    /\ UNCHANGED <<dir, bundle, st, drv>>

\* the process dies between two steps of Write: the directory stays as it is
Crash ==
    /\ w["writer"].pc \notin {"idle", "done"}
    /\ w' = [w EXCEPT !["writer"] = IdleW]
    /\ h' = [IdleH EXCEPT !.crashPc = w["writer"].pc]
    /\ UNCHANGED <<dir, bundle, st, drv>>

Next == Call \/ Step \/ Fault \/ Return \/ Crash

Spec == InitWriter /\ [][Next]_vars

(***************************************************************************)
(* Properties of Write (specification Spec)                                *)
(***************************************************************************)
TheDir == dir["v1"]
TheCall == w["writer"]

\* the tree the ..data symlink resolves to
DataTree(d) == IF d.data \in DOMAIN d.snaps THEN d.snaps[d.data] ELSE EmptyTree

\* the files of a tree, and the files a cleaned payload asks for
TreeFiles(tree) == {n \in DOMAIN tree : tree[n].kind = "file"}
TreeDirs(tree) == {n \in DOMAIN tree : tree[n].kind = "dir"}
KeyOf(cp, n) == CHOOSE k \in DOMAIN cp : Segs(k) = n
WantedFiles(cp) == {Segs(k) : k \in DOMAIN cp}
WantedDirs(cp) == UNION {ProperPrefixes(Segs(k)) : k \in DOMAIN cp}

\* tree holds exactly the files of cp, with cp's contents
HoldsContent(tree, cp) ==
    /\ TreeFiles(tree) = WantedFiles(cp)
    /\ TreeDirs(tree) = WantedDirs(cp)
    /\ \A n \in TreeFiles(tree) : tree[n].data = cp[KeyOf(cp, n)].Data

\* ... and with cp's mode and owner
HoldsPayload(tree, cp) ==
    /\ HoldsContent(tree, cp)
    /\ \A n \in TreeFiles(tree) :
           LET fp == cp[KeyOf(cp, n)]
           IN  /\ tree[n].mode = fp.Mode
               /\ tree[n].uid = (IF fp.FsUser = Nil THEN DefaultID ELSE fp.FsUser)
               /\ tree[n].gid = (IF fp.FsGroup = Nil THEN DefaultID ELSE fp.FsGroup)

AllCleanPayloads == UNION {CleanPayloads(p) : p \in ValidPayloads}

\* C1: whenever ..data exists it resolves to an existing timestamped directory
\* that holds one complete payload: during a call, the tree that was current
\* when the call began or the tree of the call's payload; never a mixture.
C1_DataIsOneCompletePayload ==
    TheDir.data # NoLink =>
        /\ TheDir.data \in DOMAIN TheDir.snaps
        /\ \E cp \in AllCleanPayloads : HoldsContent(DataTree(TheDir), cp)
        /\ TheCall.pc # "idle" =>
               \/ /\ h.start.data # NoLink
                  /\ DataTree(TheDir) = DataTree(h.start)
               \/ /\ TheCall.ret # "error" \/ TheCall.errAt # "validatePayload"
                  /\ HoldsContent(DataTree(TheDir), TheCall.payload)

\* a call has swapped ..data from an old tree to a new, different one, while
\* the directory left by an earlier failed call is still around
C1_Witness ==
    /\ TheCall.pc = "removeUserVisiblePaths"
    /\ h.start.data # NoLink
    /\ TheDir.data # h.start.data
    /\ DataTree(TheDir) # DataTree(h.start)
    /\ Cardinality(DOMAIN TheCall.payload) = 2

\* C2 (as claimed): Write returned success => the tree behind ..data is
\* exactly the payload: files, contents, modes and owners.
C2_SuccessMatchesPayload ==
    (TheCall.pc = "done" /\ TheCall.ret = "ok") =>
        /\ TheDir.data \in DOMAIN TheDir.snaps
        /\ HoldsPayload(DataTree(TheDir), TheCall.payload)

\* C3 (as claimed): a call that repeats the payload of the successful call
\* before it creates no timestamped directory, leaves ..data alone, deletes
\* nothing and leaves every file as it was.
C3_RepeatedWriteIsNoOp ==
    (TheCall.pc # "idle" /\ h.same) =>
        /\ TheDir.nextTs = h.start.nextTs
        /\ TheDir.data = h.start.data
        /\ TheDir.snaps = h.start.snaps

\* payloads that describe a directory tree: every key valid and already
\* clean, no key "." and no key that is a directory of another key
IsTreePayload(payload) ==
    /\ PayloadError(payload) = Nil
    /\ \A k \in DOMAIN payload : Clean(k) = k /\ k # Dot
    /\ \A k1, k2 \in DOMAIN payload : Segs(k1) \notin ProperPrefixes(Segs(k2))

\* no file of the tree is to become a directory of the payload or the reverse
FitsTree(payload, tree) ==
    \A k \in DOMAIN payload :
        /\ Segs(k) \notin TreeDirs(tree)
        /\ ProperPrefixes(Segs(k)) \cap TreeFiles(tree) = {}

CallAfterCrashAt(pcs) ==
    /\ TheCall.pc = "done"
    /\ h.crashPc \in pcs
    /\ ~h.faulted
    /\ IsTreePayload(h.raw)
    /\ FitsTree(h.raw, DataTree(h.start))

\* C4 (as claimed): after a crash between the creation of the new timestamped
\* directory and the rename of step 9, the next Write (no I/O error, a
\* payload that fits) succeeds, ends in its payload, with one ..data.
C4_ResumeAfterCrashBeforeRename ==
    CallAfterCrashAt({"writePayloadToDir", "setPerms", "Symlink", "Rename"}) =>
        /\ TheCall.ret = "ok"
        /\ TheDir.data \in DOMAIN TheDir.snaps
        /\ HoldsContent(DataTree(TheDir), TheCall.payload)

\* C5 (as claimed): after a crash between the rename of step 9 and the end of
\* step 12 the next Write (no I/O error, a payload that fits) succeeds, and
\* ..data refers to a snapshot that is there, not to a stale or removed one.
C5_ResumeAfterCrashAfterRename ==
    CallAfterCrashAt({"createUserVisibleFiles", "removeUserVisiblePaths",
                      "RemoveAll"}) =>
        /\ TheCall.ret = "ok"
        /\ TheDir.data \in DOMAIN TheDir.snaps
        /\ HoldsContent(DataTree(TheDir), TheCall.payload)

PreRenameSteps ==
    {"validatePayload", "Readlink", "shouldWritePayload", "newTimestampDir",
     "writePayloadToDir", "setPerms", "Symlink"}

\* C6: a Write that returns an error raised before the rename of step 9
\* leaves the target of ..data, the tree behind it and the set of
\* user-visible entries as they were when the call began.
C6_ErrorBeforeRenameChangesNothingVisible ==
    (TheCall.pc = "done" /\ TheCall.ret = "error"
        /\ TheCall.errAt \in PreRenameSteps) =>
        /\ TheDir.data = h.start.data
        /\ DOMAIN TheDir.snaps \cap {TheDir.data}
               = DOMAIN h.start.snaps \cap {TheDir.data}
        /\ DataTree(TheDir) = DataTree(h.start)
        /\ TheDir.visible = h.start.visible

\* the creation of ..data_tmp failed on a directory with published content
C6_Witness ==
    /\ TheCall.pc = "done"
    /\ TheCall.errAt = "Symlink"
    /\ h.start.data # NoLink
    /\ h.start.visible # {}
    /\ TheDir.snaps = h.start.snaps

\* the keys the claim C7 names, stated on the characters of the key
HasDotDotElement(k) ==
    \E i \in 1..(Len(k) - 1) :
        /\ k[i] = "." /\ k[i + 1] = "."
        /\ i = 1 \/ k[i - 1] = PathSeparator
        /\ i + 1 = Len(k) \/ k[i + 2] = PathSeparator
HasLongSegment(k) ==
    \E i \in 1..(Len(k) - maxFileNameLength) :
        \A j \in i..(i + maxFileNameLength) : k[j] # PathSeparator
IsBadKey(k) ==
    \/ k = <<>>
    \/ k[1] = PathSeparator
    \/ Len(k) > maxPathLength
    \/ HasDotDotElement(k)
    \/ HasLongSegment(k)

\* C7: a Write whose payload has a bad key returns the validation error and
\* never gets past validation: the target directory stays exactly as it was.
C7_BadKeyRejectedWithoutMutation ==
    (TheCall.pc # "idle" /\ \E k \in DOMAIN h.raw : IsBadKey(k)) =>
        /\ TheCall.pc = "done"
        /\ TheCall.ret = "error"
        /\ TheCall.errAt = "validatePayload"
        /\ TheDir = h.start

\* a payload mixing a good key and "../x" was rejected on a directory that
\* holds published content
C7_Witness ==
    /\ TheCall.pc = "done"
    /\ TheCall.errAt = "validatePayload"
    /\ KeyUp \in DOMAIN h.raw
    /\ KeyA \in DOMAIN h.raw
    /\ h.start.data # NoLink

\* top-level path components
TopOfTree(tree) == {n[1] : n \in DOMAIN tree}
TopOfPayload(cp) == {Segs(k)[1] : k \in {x \in DOMAIN cp : Segs(x) # <<>>}}
HasEntry(d, name) ==
    \/ name \in d.visible
    \/ name = dataDirName /\ d.data # NoLink
    \/ name = newDataDirName /\ d.tmp # NoLink

\* C8: after a successful Write no top-level component of the previously
\* published tree that the payload omits has an entry in the target
\* directory, and every component the payload keeps still has its entry.
C8_RemovalCorrectness ==
    (TheCall.pc = "done" /\ TheCall.ret = "ok") =>
        /\ \A c \in TopOfTree(DataTree(h.start)) \ TopOfPayload(TheCall.payload) :
               ~HasEntry(TheDir, c)
        /\ \A c \in TopOfTree(DataTree(h.start)) \cap TopOfPayload(TheCall.payload) :
               HasEntry(TheDir, c)

\* {a, b/c} was published, {b/c} has been written: a is gone, b is there
C8_Witness ==
    /\ TheCall.pc = "done"
    /\ TheCall.ret = "ok"
    /\ TopOfTree(DataTree(h.start)) = {<<"a">>, <<"b">>}
    /\ DOMAIN TheCall.payload = {KeyBC}
    /\ TheDir.visible = {<<"b">>}
    /\ h.start.visible = {<<"a">>, <<"b">>}

C32_HookFailureRemovesNewSnapshot ==
    (TheCall.pc = "done" /\ TheCall.errAt = "setPerms") =>
        /\ TheCall.ret = "error"
        /\ TheCall.tsDir \notin DOMAIN TheDir.snaps

\* C33 (as claimed): after every successful Write, the one that finds the
\* content up to date included, every top-level path component of the
\* payload has its user-visible symlink to ..data/<component> in the target
\* directory.
C33_SuccessLinksEveryComponent ==
    (TheCall.pc = "done" /\ TheCall.ret = "ok") =>
        TopOfPayload(TheCall.payload) \subseteq TheDir.visible

\* ..data, when present, points to a directory that exists
DataResolves(d) == d.data # NoLink => d.data \in DOMAIN d.snaps

\* the target directory had published content when the call began
HadPublished == TheCall.pc # "idle" /\ h.start.data \in DOMAIN h.start.snaps

\* C34 (as claimed): Write creates, rewrites and deletes nothing in the
\* snapshot ..data points to, and deletes a snapshot only after ..data was
\* renamed to a newer one.  ..data, when present, points to an existing
\* directory; while it points to the snapshot of the beginning of the call
\* that snapshot is there with every file as it was (what a reader of the old
\* files sees); the old snapshot is gone only when ..data points to another
\* one that exists; and after a successful Write ..data leads to the content
\* of the payload (what a new open sees).
C34_PublishedSnapshotIsImmutable ==
    /\ DataResolves(TheDir)
    /\ (HadPublished /\ TheDir.data = h.start.data) =>
           /\ TheDir.data \in DOMAIN TheDir.snaps
           /\ DataTree(TheDir) = DataTree(h.start)
    /\ (HadPublished /\ h.start.data \notin DOMAIN TheDir.snaps) =>
           /\ TheDir.data \in DOMAIN TheDir.snaps
           /\ TheDir.data # h.start.data
    /\ (TheCall.pc = "done" /\ TheCall.ret = "ok") =>
           HoldsContent(DataTree(TheDir), TheCall.payload)

\* the paths of the old snapshot that are neither a file of the payload nor
\* a directory above one
ExpectedRemovals(cp, tree) ==
    {JoinPath(n) : n \in DOMAIN tree \ (WantedFiles(cp) \cup WantedDirs(cp))}

\* the steps of Write after step 4, while it has not failed
PastShouldWrite ==
    \/ TheCall.pc \in {"newTimestampDir", "writePayloadToDir", "setPerms",
                       "Symlink", "Rename", "createUserVisibleFiles",
                       "removeUserVisiblePaths", "RemoveAll"}
    \/ TheCall.pc = "done" /\ TheCall.ret = "ok"

\* C35: pathsToRemove returns exactly the paths of the old snapshot that are
\* no key of the payload and no directory above a key; of the user-visible
\* entries only those named by a member of that set without a separator are
\* removed; and when the set is not empty Write makes a new snapshot, also
\* when no content of the payload differs.
C35_PathsToRemove ==
    /\ (TheCall.pc \notin {"idle", "Readlink", "pathsToRemove"}
            /\ TheCall.oldTsPath # NoLink) =>
           TheCall.pathsToRemove
               = ExpectedRemovals(TheCall.payload, DataTree(h.start))
    /\ TheCall.pc # "idle" =>
           \A name \in h.start.visible \ TheDir.visible :
               /\ name \in TheCall.pathsToRemove
               /\ \A i \in 1..Len(name) : name[i] # PathSeparator
    /\ (PastShouldWrite /\ TheCall.pathsToRemove # {}) =>
           /\ TheCall.pc # "newTimestampDir" => TheCall.tsDir # NoLink
           /\ TheCall.pc = "done" => TheDir.nextTs > h.start.nextTs

\* {a, b/c} was published and {b/c} with the same content has been written:
\* a and nothing else was to be removed, its entry is gone, and there is a
\* new snapshot
C35_Witness ==
    /\ TheCall.pc = "done" /\ TheCall.ret = "ok"
    /\ DOMAIN TheCall.payload = {KeyBC}
    /\ TreeFiles(DataTree(h.start)) = {Segs(KeyA), Segs(KeyBC)}
    /\ DataTree(h.start)[Segs(KeyBC)].data = TheCall.payload[KeyBC].Data
    /\ TheCall.pathsToRemove = {KeyA}
    /\ h.start.visible \ TheDir.visible = {KeyA}
    /\ TheDir.data # h.start.data

\* every point of Write at which the process can die
CrashPoints ==
    {"Readlink", "pathsToRemove", "shouldWritePayload", "newTimestampDir",
     "writePayloadToDir", "setPerms", "Symlink", "Rename",
     "createUserVisibleFiles", "removeUserVisiblePaths", "RemoveAll"}

\* C36 (as claimed): wherever a Write was when the process died, the next
\* Write on the same target directory with a valid payload that fits, and
\* with no I/O fault, returns success.
C36_WriteSucceedsAfterAnyCrash ==
    CallAfterCrashAt(CrashPoints) => TheCall.ret = "ok"

\* C40 (as claimed): the Write before returned success, and this one has a
\* valid payload and meets no I/O fault: it returns success, also when a
\* file of the published snapshot is a directory of the new payload or the
\* reverse.
C40_WriteSucceedsOverAnyPublishedPayload ==
    (/\ TheCall.pc = "done"
     /\ ~h.faulted
     /\ h.lastOk.ok /\ IsTreePayload(h.lastOk.raw)
     /\ IsTreePayload(h.raw)) =>
        TheCall.ret = "ok"

(***************************************************************************)
(* SpecResume: one caller issuing up to MaxResumeCalls Write calls on one  *)
(* target directory; the process can die at any step, and step 11 can meet *)
(* an I/O error.  Besides the fields of Spec's h:                          *)
(*   h.calls     the calls made                                            *)
(*   h.cutRaw    the payload of the last call that was cut short after     *)
(*               the rename of step 9 and before its removals were done    *)
(*   h.cutDrop   that call had a top-level component to drop               *)
(***************************************************************************)
MaxResumeCalls == 3

ResumePayloads ==
    { (KeyA :> F1) @@ (KeyBC :> F2), (KeyBC :> F2), (KeyA :> F1) }

NoCut == <<"none">>

ResumeIdle ==
    [raw |-> <<>>, start |-> EmptyDir, lastOk |-> NoCall, same |-> FALSE,
     crashPc |-> Nil, faulted |-> FALSE,
     calls |-> 0, cutRaw |-> NoCut, cutDrop |-> FALSE]

InitResume ==
    /\ dir = [v \in VolumeIDs |-> EmptyDir]
    /\ w = [p \in Procs |-> IdleW]
    /\ h = ResumeIdle
    /\ bundle = 0 /\ st = 0 /\ drv = 0

\* the call in progress published a snapshot without a top-level component
\* of the one before
DropsComponent ==
    TopOfTree(DataTree(h.start)) \ TopOfPayload(w["writer"].payload) # {}

ResumeCall ==
    \E payload \in ResumePayloads :
        /\ w["writer"].pc = "idle"
        /\ h.calls < MaxResumeCalls
        /\ WriteBegin("writer", "v1", payload, FALSE)
        /\ h' = [h EXCEPT !.raw = payload, !.start = dir["v1"],
                          !.faulted = FALSE, !.calls = @ + 1]
        /\ UNCHANGED <<bundle, st, drv>>

ResumeStep ==
    /\ WriteStep("writer", FALSE)
    /\ UNCHANGED <<h, bundle, st, drv>>

\* an I/O error in step 11
ResumeFault ==
    /\ w["writer"].pc = "removeUserVisiblePaths"
    /\ WriteStep("writer", TRUE)
    /\ h' = [h EXCEPT !.faulted = TRUE]
    /\ UNCHANGED <<bundle, st, drv>>

ResumeReturn ==
    LET cut == w["writer"].errAt = "removeUserVisiblePaths"
    IN  /\ w["writer"].pc = "done"
        /\ w' = [w EXCEPT !["writer"] = IdleW]
        /\ h' = [ResumeIdle EXCEPT
                     !.calls = h.calls,
                     !.cutRaw = IF cut THEN h.raw ELSE NoCut,
                     !.cutDrop = cut /\ DropsComponent]
        /\ UNCHANGED <<dir, bundle, st, drv>>

ResumeCrash ==
    LET cut == w["writer"].pc \in {"createUserVisibleFiles",
                                   "removeUserVisiblePaths"}
    IN  /\ w["writer"].pc \notin {"idle", "done"}
        /\ w' = [w EXCEPT !["writer"] = IdleW]
        /\ h' = [ResumeIdle EXCEPT
                     !.calls = h.calls,
                     !.crashPc = w["writer"].pc,
                     !.cutRaw = IF cut THEN h.raw ELSE NoCut,
                     !.cutDrop = cut /\ DropsComponent]
        /\ UNCHANGED <<dir, bundle, st, drv>>

NextResume ==
    ResumeCall \/ ResumeStep \/ ResumeFault \/ ResumeReturn \/ ResumeCrash

SpecResume == InitResume /\ [][NextResume]_vars

\* C37 (as claimed): a Write that drops a top-level component was cut short
\* (the process died, or step 11 returned an error) after the rename of step
\* 9 and before its removals were done; the next Write has the same payload,
\* meets no I/O fault and succeeds: then the user-visible entries are
\* exactly the top-level components of the payload.
C37_NoEntryOfDroppedComponentSurvives ==
    (/\ TheCall.pc = "done" /\ TheCall.ret = "ok"
     /\ ~h.faulted
     /\ h.cutDrop
     /\ h.cutRaw = h.raw) =>
        TheDir.visible = TopOfPayload(TheCall.payload)

(***************************************************************************)
(* The volume state store (State)                                          *)
(***************************************************************************)
EmptyState == [volumeToMetadata |-> <<>>, bundleToVolumeID |-> <<>>]

\* index.Insert
IndexInsert(i, k, v) ==
    IF k \in DOMAIN i THEN [i EXCEPT ![k] = @ \cup {v}] ELSE (k :> {v}) @@ i

\* an index.Delete that leaves an emptied set under its key
IndexDeleteKeepsEmpty(i, k, v) ==
    IF k \notin DOMAIN i THEN i ELSE [i EXCEPT ![k] = @ \ {v}]

\* index.Delete: a set that becomes empty is dropped with its key
IndexDelete(i, k, v) ==
    IF k \notin DOMAIN i THEN i
    ELSE IF i[k] \ {v} = {} THEN Restrict(i, DOMAIN i \ {k})
    ELSE [i EXCEPT ![k] = @ \ {v}]

\* State.Track, once the metadata file has been written
Track(s, meta) ==
    [volumeToMetadata |-> (meta.VolumeID :> meta) @@ s.volumeToMetadata,
     bundleToVolumeID |->
         IndexInsert(s.bundleToVolumeID, meta.Bundle, meta.VolumeID)]

\* State.StopSync
StopSync(s, id) ==
    IF id \in DOMAIN s.volumeToMetadata
    THEN [s EXCEPT !.bundleToVolumeID =
                       IndexDelete(@, s.volumeToMetadata[id].Bundle, id)]
    ELSE s

\* State.GetMetadataForBundle
GetMetadataForBundle(s, name) ==
    IF name \in DOMAIN s.bundleToVolumeID
    THEN {s.volumeToMetadata[id] : id \in s.bundleToVolumeID[name]}
    ELSE {}

(***************************************************************************)
(* BundleWriter.Sync                                                       *)
(***************************************************************************)
\* strings.TrimLeft(s, "/")
RECURSIVE TrimLeft(_)
TrimLeft(s) ==
    IF s # <<>> /\ s[1] = PathSeparator THEN TrimLeft(Tail(s)) ELSE s

\* path.Join("/", p)
JoinRoot(p) == Clean(<<PathSeparator>> \o p)

\* a PEM block of a bundle: its type, whether x509.ParseCertificate takes
\* its bytes, whether CertificateSubjectHash takes its subject, the subject
\* hash (eight hex digits in the code, one letter here) and its encoding
CertBlock(hash, pem) ==
    [Type |-> "CERTIFICATE", parses |-> TRUE, hashes |-> TRUE,
     hash |-> hash, pem |-> pem]

\* the bundle in its version b, as BundleLoader.Load returns it: one
\* certificate, another one in each version
BundleData(b) == << CertBlock(<<"p">>, ToString(b)) >>

\* the Bundle objects of the cluster: the one the controller is followed
\* on, and another
BundleName == "b"
OtherBundle == "b2"
Bundles == {BundleName, OtherBundle}

\* what the callbacks of one output work on: the buffer of the concatenated
\* file, the counts of the hashes, the payload, and the certificates the
\* callback was called with
NewAcc(payload, calls) ==
    [buffer |-> "", count |-> <<>>, payload |-> payload, calls |-> calls]

\* the callback of addConcatenatedFileToPayload
concatenatedFileCallback(cert, acc) ==
    [err |-> Nil,
     acc |-> [acc EXCEPT !.buffer = @ \o cert.pem,
                         !.calls = Append(@, cert)]]

\* the callback of addRehashFilesToPayload without the count: every file is
\* "<hash>.0"
rehashCallbackWithoutCount(cert, output, acc) ==
    LET called == [acc EXCEPT !.calls = Append(@, cert)]
        fname == cert.hash \o <<".", "0">>
        fpath == TrimLeft(Clean(output.Path \o <<PathSeparator>> \o fname))
    IN  IF ~cert.hashes
        THEN [err |-> "CertificateSubjectHash", acc |-> called]
        ELSE [err |-> Nil,
              acc |-> [called EXCEPT
                  !.payload = [k \in DOMAIN acc.payload \cup {fpath} |->
                                  IF k = fpath
                                  THEN FP(cert.pem, "0440", output.UID,
                                          output.GID)
                                  ELSE acc.payload[k]]]]

\* the callback of addRehashFilesToPayload: the file "<hash>.<count>"
rehashCallback(cert, output, acc) ==
    LET called == [acc EXCEPT !.calls = Append(@, cert)]
        count == acc.count
        n == IF cert.hash \in DOMAIN count THEN count[cert.hash] ELSE 0
        fname == cert.hash \o <<".", ToString(n)>>
        fpath == TrimLeft(Clean(output.Path \o <<PathSeparator>> \o fname))
    IN  IF ~cert.hashes
        THEN [err |-> "CertificateSubjectHash", acc |-> called]
        ELSE [err |-> Nil,
              acc |-> [called EXCEPT
                  !.count = [x \in DOMAIN count \cup {cert.hash} |->
                                IF x = cert.hash THEN n + 1 ELSE count[x]],
                  !.payload = [k \in DOMAIN acc.payload \cup {fpath} |->
                                  IF k = fpath
                                  THEN FP(cert.pem, "0440", output.UID,
                                          output.GID)
                                  ELSE acc.payload[k]]]]

\* the callback an output gives to ForEachCertInBundle
fn(cert, output, acc) ==
    IF output.Format = "OpenSSLRehash"
    THEN rehashCallback(cert, output, acc)
    ELSE concatenatedFileCallback(cert, acc)

\* ForEachCertInBundle, but a certificate that does not parse is passed over
RECURSIVE ForEachParsedCertInBundle(_, _, _)
ForEachParsedCertInBundle(bundleBlocks, output, acc) ==
    IF bundleBlocks = <<>> THEN [err |-> Nil, acc |-> acc]
    ELSE LET block == Head(bundleBlocks)
         IN  IF block.Type # "CERTIFICATE" \/ ~block.parses
             THEN ForEachParsedCertInBundle(Tail(bundleBlocks), output, acc)
             ELSE CHOOSE result \in
                      {IF r.err # Nil THEN r
                       ELSE ForEachParsedCertInBundle(Tail(bundleBlocks),
                                                      output, r.acc) :
                           r \in {fn(block, output, acc)}} : TRUE

\* ForEachCertInBundle: the blocks in order, those that are no certificate
\* passed over; the first certificate that does not parse, or for which the
\* callback fails, ends it with that error.  (r is what the callback
\* returned, bound once.)
RECURSIVE ForEachCertInBundle(_, _, _)
ForEachCertInBundle(bundleBlocks, output, acc) ==
    IF bundleBlocks = <<>> THEN [err |-> Nil, acc |-> acc]
    ELSE LET block == Head(bundleBlocks)
         IN  IF block.Type # "CERTIFICATE"
             THEN ForEachCertInBundle(Tail(bundleBlocks), output, acc)
             ELSE IF ~block.parses
             THEN [err |-> "ParseCertificate", acc |-> acc]
             ELSE CHOOSE result \in
                      {IF r.err # Nil THEN r
                       ELSE ForEachCertInBundle(Tail(bundleBlocks), output,
                                                r.acc) :
                           r \in {fn(block, output, acc)}} : TRUE

\* addConcatenatedFileToPayload: payload[fpath] = the certificates of the
\* bundle, unless one of them failed
addConcatenatedFileToPayload(bundleBlocks, output, payload, calls) ==
    LET r == ForEachCertInBundle(bundleBlocks, output, NewAcc(payload, calls))
        fpath == TrimLeft(output.Path)
    IN  IF r.err # Nil
        THEN [err |-> r.err, payload |-> payload, calls |-> r.acc.calls]
        ELSE [err |-> Nil, calls |-> r.acc.calls,
              payload |-> [k \in DOMAIN payload \cup {fpath} |->
                              IF k = fpath
                              THEN FP(r.acc.buffer, "0440", output.UID,
                                      output.GID)
                              ELSE payload[k]]]

\* addRehashFilesToPayload: one file "<hash>.<count>" for each certificate;
\* the files of the certificates before a failure stay in the map
addRehashFilesToPayload(bundleBlocks, output, payload, calls) ==
    LET r == ForEachCertInBundle(bundleBlocks, output, NewAcc(payload, calls))
    IN  [err |-> r.err, payload |-> r.acc.payload, calls |-> r.acc.calls]

\* the loop of Sync over meta.Outputs: the first error ends it
RECURSIVE RenderOutputs(_, _, _, _)
RenderOutputs(outputs, bundleBlocks, payload, calls) ==
    IF outputs = <<>> THEN [err |-> Nil, payload |-> payload, calls |-> calls]
    ELSE LET output == Head(outputs)
             added ==
                 CASE output.Format = "ConcatenatedFile" ->
                          addConcatenatedFileToPayload(bundleBlocks, output,
                                                       payload, calls)
                   [] output.Format = "OpenSSLRehash" ->
                          addRehashFilesToPayload(bundleBlocks, output,
                                                  payload, calls)
                   [] OTHER ->
                          [err |-> Nil, payload |-> payload, calls |-> calls]
         IN  CHOOSE result \in
                 {IF r.err # Nil THEN r
                  ELSE RenderOutputs(Tail(outputs), bundleBlocks, r.payload,
                                     r.calls) : r \in {added}} : TRUE

\* the payload Sync builds for a volume from the bundle it loaded
Render(meta, b) == RenderOutputs(meta.Outputs, BundleData(b), <<>>, <<>>).payload

\* Sync up to the first step of Write, for the bundle Load returns: an error
\* when no Bundle has the name; the payload is built, and an error of that
\* ends the call; NewAtomicWriter stats the target directory; Write validates
SyncBundle(self, meta, bundleBlocks) ==
    LET target == meta.VolumeID
        r == RenderOutputs(meta.Outputs, bundleBlocks, <<>>, <<>>)
        failed(at) == [w EXCEPT ![self] =
                          Err([IdleW EXCEPT !.target = target], at)]
    IN  /\ dir[target].nextTs <= MaxTs
        /\ IF meta.Bundle \notin Bundles
           THEN w' = failed("Load") /\ UNCHANGED dir
           ELSE IF r.err # Nil
           THEN w' = failed(r.err) /\ UNCHANGED dir
           ELSE IF ~dir[target].exists
           THEN w' = failed("NewAtomicWriter") /\ UNCHANGED dir
           ELSE WriteBegin(self, target, r.payload, FALSE)

\* Sync with the bundle in its current version
BundleSync(self, meta) == SyncBundle(self, meta, BundleData(bundle))

(***************************************************************************)
(* NodePublishVolume: the checks of the request                            *)
(***************************************************************************)
Digits == {"0", "1", "2", "3", "4", "5", "6", "7", "8", "9"}

RECURSIVE Decimal(_)
Decimal(s) ==
    IF s = <<>> THEN 0
    ELSE 10 * Decimal(SubSeq(s, 1, Len(s) - 1))
         + (CHOOSE n \in 0..9 : ToString(n) = s[Len(s)])

\* strconv.ParseInt(s, 10, 64): an optional sign, then decimal digits (the
\* inputs stay far below 64 bits, so the range error does not arise)
ParseInt(s) ==
    LET signed == s # <<>> /\ s[1] \in {"+", "-"}
        body == IF signed THEN Tail(s) ELSE s
    IN  IF body # <<>> /\ \A i \in DOMAIN body : body[i] \in Digits
        THEN [err |-> Nil,
              val |-> IF signed /\ s[1] = "-" THEN 0 - Decimal(body)
                      ELSE Decimal(body)]
        ELSE [err |-> "syntax", val |-> Nil]

\* csv.Reader.Read with TrimLeadingSpace over the first record of s (no
\* newline in s): mode is where the reader stands, cur the field being read,
\* out the fields read
RECURSIVE csvRead(_, _, _, _)
csvRead(s, mode, cur, out) ==
    IF s = <<>>
    THEN IF mode = "quoted" THEN [err |-> "ErrQuote", list |-> <<>>]
         ELSE [err |-> Nil, list |-> Append(out, cur)]
    ELSE LET c == Head(s)
             rest == Tail(s)
         IN  CASE mode = "start" /\ c = " " -> csvRead(rest, "start", cur, out)
               [] mode = "start" /\ c = "\"" -> csvRead(rest, "quoted", cur, out)
               [] mode \in {"start", "bare", "closed"} /\ c = "," ->
                      csvRead(rest, "start", <<>>, Append(out, cur))
               [] mode = "bare" /\ c = "\"" ->
                      [err |-> "ErrBareQuote", list |-> <<>>]
               [] mode = "quoted" /\ c = "\"" -> csvRead(rest, "closed", cur, out)
               [] mode = "quoted" -> csvRead(rest, "quoted", Append(cur, c), out)
               [] mode = "closed" /\ c = "\"" ->
                      csvRead(rest, "quoted", Append(cur, c), out)
               [] mode = "closed" -> [err |-> "ErrQuote", list |-> <<>>]
               [] OTHER -> csvRead(rest, "bare", Append(cur, c), out)

\* splitList: the reader has nothing to read in the empty string and
\* returns io.EOF
splitList(s) ==
    IF s = <<>> THEN [err |-> "EOF", list |-> <<>>]
    ELSE csvRead(s, "start", <<>>, <<>>)

\* the two checks of the kind of the volume, with the read-only check left out
requestKindErrorEphemeralOnly(req) ==
    IF req.ephemeral # "true" THEN "ephemeral" ELSE Nil

\* the two checks of the kind of the volume: Nil when the request is for an
\* ephemeral, read-only volume
requestKindError(req) ==
    IF req.ephemeral # "true" THEN "ephemeral"
    ELSE IF ~req.readonly THEN "readonly"
    ELSE Nil

\* the outputs NodePublishVolume appends for the paths of one format
outputsOf(format, list, gid) ==
    [i \in DOMAIN list |->
        [Format |-> format, Path |-> JoinRoot(list[i]),
         UID |-> Nil, GID |-> gid]]

\* NodePublishVolume up to the metadata object: the error it returns (Nil
\* if none) and the metadata
publishMetadata(req) ==
    LET namespace == req.namespace
        bundleName == req.bundle
        parsed == ParseInt(req.group)
        gid == IF req.group # <<>> THEN parsed.val ELSE Nil
        files == splitList(req.files)
        hashes == splitList(req.hashes)
        meta == [VolumeID |-> req.VolumeId, PodNamespace |-> namespace,
                 Bundle |-> bundleName,
                 Outputs |-> outputsOf("ConcatenatedFile", files.list, gid)
                             \o outputsOf("OpenSSLRehash", hashes.list, gid)]
        err == IF requestKindError(req) # Nil THEN requestKindError(req)
               ELSE IF namespace = "" THEN "namespace"
               ELSE IF namespace = "" THEN "bundle"
               ELSE IF req.group # <<>> /\ parsed.err # Nil
                    THEN "volume_mount_group"
               ELSE IF files.err # Nil THEN "concatenated-files"
               ELSE IF hashes.err # Nil THEN "openssl-rehash"
               ELSE IF meta.Outputs = <<>> THEN "no outputs"
               ELSE Nil
    IN  [err |-> err, meta |-> meta]

\* the requests: one that passes every check, and requests that differ
\* from it in the kind of the volume, the namespace, the bundle, the group
\* or the outputs
ValidRequest(id) ==
    [VolumeId |-> id, ephemeral |-> "true", readonly |-> TRUE,
     namespace |-> "ns", bundle |-> BundleName, group |-> <<"7">>,
     files |-> <<"c", "/", "a">>, hashes |-> <<"h">>]

NoRequest ==
    [VolumeId |-> Nil, ephemeral |-> Nil, readonly |-> FALSE,
     namespace |-> Nil, bundle |-> Nil, group |-> <<>>,
     files |-> <<>>, hashes |-> <<>>]

Requests ==
    LET V == ValidRequest("v1")
    IN  {[V EXCEPT !.ephemeral = e, !.readonly = ro] :
            e \in {"true", "false", ""}, ro \in BOOLEAN}
        \cup {[V EXCEPT !.namespace = ""],
              [V EXCEPT !.bundle = "", !.group = <<>>],
              [V EXCEPT !.namespace = "", !.bundle = ""],
              [V EXCEPT !.group = <<"x">>],
              [V EXCEPT !.files = <<>>],
              [V EXCEPT !.hashes = <<>>],
              [V EXCEPT !.files = <<>>, !.hashes = <<>>],
              [V EXCEPT !.files = <<"c", "\"", "a">>]}

(***************************************************************************)
(* SpecDriver: the node server and the bundle controller on one volume.    *)
(* Two gRPC handlers may run NodePublishVolume at the same time (the       *)
(* kubelet retries and republishes), one worker runs Reconcile.  No I/O    *)
(* error is injected: the errors are those the request and the filesystem  *)
(* state cause.  h records the last return of a call of the node server:   *)
(* the request, the error, and the state before and after the returning    *)
(* step.                                                                   *)
(***************************************************************************)
MaxCalls == 2       \* NodePublishVolume calls made
MaxBundle == 2      \* versions the bundle goes through

Handlers == {"pub1", "pub2"}
Worker == "rec"
DriverProcs == Handlers \cup {Worker}

\* the metadata NodePublishVolume builds from the request that passes
MetaFor(id) == publishMetadata(ValidRequest(id)).meta

\* ..data of the volume's data directory points to a snapshot that holds
\* the payload rendered from the bundle
Synced(d, meta) ==
    /\ d.exists
    /\ d.data \in DOMAIN d.snaps
    /\ HoldsContent(d.snaps[d.data], Render(meta, bundle))

\* the record of a return of NodePublishVolume or NodeUnpublishVolume: the
\* tracked volumes, the mount, the target path, the root directory and its
\* content before and after the returning step
Returned(op, req, err) ==
    LET id == req.VolumeId
        meta == publishMetadata(req).meta
    IN  [returned |-> TRUE, op |-> op, req |-> req, err |-> err,
         before |-> [st |-> st, mounted |-> drv.mounted[id],
                     target |-> drv.target[id],
                     exists |-> dir[id].exists,
                     synced |-> Synced(dir[id], meta),
                     published |-> drv.published[id]],
         after |-> [st |-> st', mounted |-> drv'.mounted[id],
                    target |-> drv'.target[id],
                    exists |-> dir'[id].exists,
                    synced |-> Synced(dir'[id], meta),
                    published |-> drv'.published[id]]]

NoReturn ==
    LET none == [st |-> EmptyState, mounted |-> FALSE, target |-> FALSE,
                 exists |-> FALSE, synced |-> FALSE, published |-> FALSE]
    IN  [returned |-> FALSE, op |-> Nil, req |-> NoRequest, err |-> Nil,
         before |-> none, after |-> none]

RemovedDir(d) == [EmptyDir EXCEPT !.exists = FALSE, !.nextTs = d.nextTs]

\* the last Reconcile: the volumes GetMetadataForBundle returned, those a
\* Sync was attempted for, those whose Sync failed, and the errors the
\* aggregate it returned holds
NoReconcile ==
    [ran |-> FALSE, listed |-> {}, tried |-> {}, failed |-> {}, errs |-> <<>>]

\* nothing is published: for the volumes of ids there is no volume
\* directory, no target path, no mount
DriverInit(ids) ==
    /\ dir = [v \in ids |-> RemovedDir(EmptyDir)]
    /\ w = [p \in DriverProcs |-> IdleW]
    /\ h = NoReturn
    /\ bundle = 1
    /\ st = EmptyState
    /\ drv = [pc |-> [p \in DriverProcs |-> "idle"], calls |-> 0,
              req |-> [p \in Handlers |-> NoRequest],
              err |-> [p \in Handlers |-> Nil],
              queue |-> FALSE, todo |-> {}, errs |-> <<>>,
              cur |-> Nil, rec |-> NoReconcile, last |-> NoReconcile,
              target |-> [v \in ids |-> FALSE],
              mounted |-> [v \in ids |-> FALSE],
              published |-> [v \in ids |-> FALSE]]

InitDriver == DriverInit(VolumeIDs)

\* NodePublishVolume with the request req up to os.MkdirAll of the data
\* directory (which fails if fail): a request that fails a check returns its
\* error, and the deferred function runs StopSync, Unmount and os.RemoveAll
\* of the volume's root directory
PublishCall(p, req, fail) ==
    /\ drv.pc[p] = "idle"
    /\ LET checked == publishMetadata(req)
           id == req.VolumeId
       IN  IF checked.err # Nil \/ fail
           THEN /\ st' = StopSync(st, id)
                /\ dir' = [dir EXCEPT ![id] = RemovedDir(@)]
                /\ drv' = [drv EXCEPT !.calls = @ + 1,
                                      !.mounted[id] = FALSE,
                                      !.published[id] = FALSE]
                /\ UNCHANGED <<w, bundle>>
                /\ h' = Returned("publish", req,
                                 IF checked.err # Nil THEN checked.err
                                 ELSE "MkdirAll")
           ELSE /\ dir' = [dir EXCEPT ![id].exists = TRUE]
                /\ drv' = [drv EXCEPT !.pc[p] = "Sync", !.req[p] = req,
                                      !.calls = @ + 1]
                /\ UNCHANGED <<w, bundle, h, st>>

\* a NodePublishVolume call arrives
NodePublishVolume(p) ==
    /\ drv.calls < MaxCalls
    /\ \E req \in Requests : PublishCall(p, req, FALSE)

\* the initial sync of NodePublishVolume begins
PublishSync(p) ==
    /\ drv.pc[p] = "Sync"
    /\ BundleSync(p, publishMetadata(drv.req[p]).meta)
    /\ drv' = [drv EXCEPT !.pc[p] = "Write"]
    /\ UNCHANGED <<h, bundle, st>>

\* a step of a Write that a handler or the worker is in
SyncStep(p) ==
    /\ drv.pc[p] = "Write"
    /\ WriteStep(p, FALSE)
    /\ UNCHANGED <<h, bundle, st, drv>>

\* the initial sync succeeded, but Track comes first and the mount is left out
MountStepSkipped(p, fail) ==
    /\ drv.pc[p] = "Write"
    /\ w[p].pc = "done" /\ w[p].ret = "ok"
    /\ dir[drv.req[p].VolumeId].exists
    /\ w' = [w EXCEPT ![p] = IdleW]
    /\ drv' = [drv EXCEPT !.pc[p] = "Track"]
    /\ UNCHANGED <<dir, h, bundle, st>>

\* the initial sync succeeded: IsMountPoint, os.MkdirAll of a target path
\* that does not exist, Mount unless it is a mount point; fail names the
\* one of them that fails, if any
MountStep(p, fail) ==
    LET id == drv.req[p].VolumeId
    IN  /\ drv.pc[p] = "Write"
        /\ w[p].pc = "done" /\ w[p].ret = "ok"
        /\ dir[id].exists
        /\ w' = [w EXCEPT ![p] = IdleW]
        /\ drv' =
             CASE fail = "IsMountPoint" ->
                      [drv EXCEPT !.pc[p] = "Failed",
                                  !.err[p] = "IsMountPoint"]
               [] fail = "MkdirAll" /\ ~drv.target[id] ->
                      [drv EXCEPT !.pc[p] = "Failed",
                                  !.err[p] = "IsMountPoint"]
               [] fail = "Mount" /\ ~drv.mounted[id] ->
                      [drv EXCEPT !.pc[p] = "Failed", !.err[p] = "Mount",
                                  !.target[id] = TRUE]
               [] OTHER ->
                      [drv EXCEPT !.pc[p] = "Track", !.target[id] = TRUE,
                                  !.mounted[id] = TRUE]
    /\ UNCHANGED <<dir, h, bundle, st>>

Mount(p) == MountStep(p, Nil)

\* State.Track (which fails if fail) and the successful return
TrackStep(p, fail) ==
    /\ drv.pc[p] = "Track"
    /\ dir[drv.req[p].VolumeId].exists
    /\ IF fail
       THEN /\ drv' = [drv EXCEPT !.pc[p] = "Failed", !.err[p] = "Track"]
            /\ UNCHANGED <<dir, w, h, bundle, st>>
       ELSE /\ st' = Track(st, publishMetadata(drv.req[p]).meta)
            /\ drv' = [drv EXCEPT !.pc[p] = "idle", !.req[p] = NoRequest,
                                  !.published[drv.req[p].VolumeId] = TRUE]
            /\ UNCHANGED <<dir, w, bundle>>
            /\ h' = Returned("publish", drv.req[p], Nil)

PublishTrack(p) == TrackStep(p, FALSE)

\* the sync, the mount or Track failed: the deferred rollback runs StopSync,
\* Unmount and os.RemoveAll of the volume's root directory, their errors are
\* dropped, and the call returns the error of the step that failed
Rollback(p) ==
    LET id == drv.req[p].VolumeId
        cause ==
            CASE drv.pc[p] = "Failed" -> drv.err[p]
              [] drv.pc[p] = "Track" -> "Track"
              [] w[p].ret = "error" -> "Sync"
              [] OTHER -> "Mount"
    IN  /\ \/ /\ drv.pc[p] = "Write"
              /\ w[p].pc = "done"
              /\ w[p].ret = "error" \/ ~dir[id].exists
           \/ /\ drv.pc[p] = "Track"
              /\ ~dir[id].exists
           \/ drv.pc[p] = "Failed"
        /\ st' = StopSync(st, id)
        /\ dir' = [dir EXCEPT ![id] = RemovedDir(@)]
        /\ w' = [w EXCEPT ![p] = IdleW]
        /\ drv' = [drv EXCEPT !.pc[p] = "idle", !.req[p] = NoRequest,
                              !.err[p] = Nil,
                              !.mounted[id] = FALSE,
                              !.published[id] = FALSE]
        /\ UNCHANGED bundle
        /\ h' = Returned("publish", drv.req[p], cause)

\* NodeUnpublishVolume of volume id as one step: StopSync, IsMountPoint
\* (the error IsNotExist when the target path does not exist), Unmount of a
\* mount point, os.RemoveAll of the root directory; fail names the one of
\* them that fails, if any, and the call returns at the first error
UnpublishCall(p, id, fail) ==
    LET err == CASE ~drv.target[id] -> "IsNotExist"
                 [] fail = "IsMountPoint" -> "IsMountPoint"
                 [] fail = "Unmount" /\ drv.mounted[id] -> "Unmount"
                 [] fail = "RemoveAll" /\ dir[id].exists -> "RemoveAll"
                 [] OTHER -> Nil
    IN  /\ drv.pc[p] = "idle"
        /\ st' = StopSync(st, id)
        /\ drv' = [drv EXCEPT !.calls = @ + 1, !.published[id] = FALSE,
                              !.mounted[id] =
                                  IF err \in {"IsNotExist", "IsMountPoint",
                                             "Unmount"}
                                  THEN @ ELSE FALSE]
        /\ dir' = IF err = Nil THEN [dir EXCEPT ![id] = RemovedDir(@)]
                  ELSE dir
        /\ UNCHANGED <<w, bundle>>
        /\ h' = Returned("unpublish", [NoRequest EXCEPT !.VolumeId = id], err)

\* the bundle's ConfigMap or Secret changes; the watch enqueues the bundle
BundleChange ==
    /\ bundle < MaxBundle
    /\ bundle' = bundle + 1
    /\ drv' = [drv EXCEPT !.queue = TRUE]
    /\ UNCHANGED <<dir, w, h, st>>

\* Reconcile takes the request and reads the volumes of the bundle
Reconcile ==
    /\ drv.pc[Worker] = "idle"
    /\ drv.queue
    /\ LET metas == GetMetadataForBundle(st, BundleName)
       IN  drv' = [drv EXCEPT
                     !.pc[Worker] = "Loop", !.queue = FALSE, !.errs = <<>>,
                     !.todo = metas,
                     !.rec = [NoReconcile EXCEPT
                                !.listed = {m.VolumeID : m \in metas}]]
    /\ UNCHANGED <<dir, w, h, bundle, st>>

\* the loop of Reconcile syncs the next volume
ReconcileSync ==
    /\ drv.pc[Worker] = "Loop"
    /\ \E meta \in drv.todo :
           /\ BundleSync(Worker, meta)
           /\ drv' = [drv EXCEPT !.pc[Worker] = "Write", !.todo = @ \ {meta},
                                 !.cur = meta.VolumeID,
                                 !.rec.tried = @ \cup {meta.VolumeID}]
    /\ UNCHANGED <<h, bundle, st>>

\* that Sync has returned, and its error ends the loop
ReconcileSyncedStopsAtError ==
    /\ drv.pc[Worker] = "Write"
    /\ w[Worker].pc = "done"
    /\ w' = [w EXCEPT ![Worker] = IdleW]
    /\ drv' = IF w[Worker].ret = "error"
              THEN [drv EXCEPT !.pc[Worker] = "Loop", !.cur = Nil,
                               !.todo = {},
                               !.errs = Append(@, drv.cur),
                               !.rec.failed = @ \cup {drv.cur}]
              ELSE [drv EXCEPT !.pc[Worker] = "Loop", !.cur = Nil]
    /\ UNCHANGED <<dir, h, bundle, st>>

\* that Sync has returned: its error is appended to errs
ReconcileSynced ==
    /\ drv.pc[Worker] = "Write"
    /\ w[Worker].pc = "done"
    /\ w' = [w EXCEPT ![Worker] = IdleW]
    /\ drv' = IF w[Worker].ret = "error"
              THEN [drv EXCEPT !.pc[Worker] = "Loop", !.cur = Nil,
                               !.errs = Append(@, drv.cur),
                               !.rec.failed = @ \cup {drv.cur}]
              ELSE [drv EXCEPT !.pc[Worker] = "Loop", !.cur = Nil]
    /\ UNCHANGED <<dir, h, bundle, st>>

\* Reconcile returns errors.NewAggregate(errs), nil when errs is empty; an
\* error makes the controller queue the request again
ReconcileReturn ==
    /\ drv.pc[Worker] = "Loop"
    /\ drv.todo = {}
    /\ drv' = [drv EXCEPT !.pc[Worker] = "idle",
                          !.queue = @ \/ drv.errs # <<>>,
                          !.errs = <<>>, !.rec = NoReconcile,
                          !.last = [drv.rec EXCEPT !.ran = TRUE,
                                                   !.errs = drv.errs]]
    /\ UNCHANGED <<dir, w, h, bundle, st>>

NextDriver ==
    \/ \E p \in Handlers : NodePublishVolume(p)
    \/ \E p \in Handlers : PublishSync(p)
    \/ \E p \in DriverProcs : SyncStep(p)
    \/ \E p \in Handlers : Mount(p)
    \/ \E p \in Handlers : PublishTrack(p)
    \/ \E p \in Handlers : Rollback(p)
    \/ BundleChange
    \/ Reconcile
    \/ ReconcileSync
    \/ ReconcileSynced
    \/ ReconcileReturn

SpecDriver == InitDriver /\ [][NextDriver]_vars

(***************************************************************************)
(* SpecPublish: the node server alone, one NodePublishVolume call after    *)
(* the other on one handler, with every request of Requests.               *)
(***************************************************************************)
Kubelet == "pub1"

NextPublish ==
    \/ NodePublishVolume(Kubelet)
    \/ PublishSync(Kubelet)
    \/ SyncStep(Kubelet)
    \/ Mount(Kubelet)
    \/ PublishTrack(Kubelet)
    \/ Rollback(Kubelet)

SpecPublish == InitDriver /\ [][NextPublish]_vars

(***************************************************************************)
(* SpecNode: the node server alone, one NodePublishVolume or               *)
(* NodeUnpublishVolume call after the other for one volume, with requests  *)
(* for two bundles and with I/O errors in the steps of the calls (none in  *)
(* the three steps of the deferred rollback).                              *)
(***************************************************************************)
MaxNodeCalls == 3   \* calls of the node server

NodeRequests ==
    LET V == ValidRequest("v1")
    IN  {V, [V EXCEPT !.bundle = OtherBundle], [V EXCEPT !.bundle = ""],
         [V EXCEPT !.readonly = FALSE]}

MountFaults == {Nil, "IsMountPoint", "MkdirAll", "Mount"}
UnpublishFaults == {Nil, "IsMountPoint", "Unmount", "RemoveAll"}

NodePublish ==
    /\ drv.calls < MaxNodeCalls
    /\ \E req \in NodeRequests, fail \in BOOLEAN :
           PublishCall(Kubelet, req, fail)

NodeSyncStep ==
    /\ drv.pc[Kubelet] = "Write"
    /\ \E fail \in BOOLEAN : WriteStep(Kubelet, fail)
    /\ UNCHANGED <<h, bundle, st, drv>>

NodeMount == \E fail \in MountFaults : MountStep(Kubelet, fail)

NodeTrack == \E fail \in BOOLEAN : TrackStep(Kubelet, fail)

NodeUnpublishVolume ==
    /\ drv.calls < MaxNodeCalls
    /\ \E fail \in UnpublishFaults : UnpublishCall(Kubelet, "v1", fail)

NextNode ==
    \/ NodePublish
    \/ PublishSync(Kubelet)
    \/ NodeSyncStep
    \/ NodeMount
    \/ NodeTrack
    \/ Rollback(Kubelet)
    \/ NodeUnpublishVolume

SpecNode == InitDriver /\ [][NextNode]_vars

(***************************************************************************)
(* SpecReconcile: two volumes of one bundle.  The kubelet publishes them,  *)
(* then the bundle changes, and the worker reconciles it while its writes  *)
(* meet I/O errors in their first step, the read of the ..data link.       *)
(***************************************************************************)
MaxRecCalls == 2   \* NodePublishVolume calls

RecVolumes == {"v1", "v2"}

InitReconcile == DriverInit(RecVolumes)

RecPublish ==
    /\ drv.calls < MaxRecCalls
    /\ bundle = 1
    /\ \E id \in RecVolumes : PublishCall(Kubelet, ValidRequest(id), FALSE)

RecBundleChange ==
    /\ drv.pc[Kubelet] = "idle"
    /\ BundleChange

RecSyncStep ==
    /\ drv.pc[Worker] = "Write"
    /\ \E fail \in BOOLEAN :
           /\ fail => w[Worker].pc = "Readlink"
           /\ WriteStep(Worker, fail)
    /\ UNCHANGED <<h, bundle, st, drv>>

NextReconcile ==
    \/ RecPublish
    \/ PublishSync(Kubelet)
    \/ SyncStep(Kubelet)
    \/ Mount(Kubelet)
    \/ PublishTrack(Kubelet)
    \/ RecBundleChange
    \/ Reconcile
    \/ ReconcileSync
    \/ RecSyncStep
    \/ ReconcileSynced
    \/ ReconcileReturn

SpecReconcile == InitReconcile /\ [][NextReconcile]_vars

(***************************************************************************)
(* SpecUnpublish: one volume.  The kubelet publishes and unpublishes it,   *)
(* one call after the other, while the bundle changes and the worker       *)
(* reconciles it; no I/O error is injected.                                *)
(***************************************************************************)
MaxUnpCalls == 3   \* calls of the node server

UnpPublish ==
    /\ drv.calls < MaxUnpCalls
    /\ PublishCall(Kubelet, ValidRequest("v1"), FALSE)

UnpUnpublish ==
    /\ drv.calls < MaxUnpCalls
    /\ UnpublishCall(Kubelet, "v1", Nil)

NextUnpublish ==
    \/ UnpPublish
    \/ PublishSync(Kubelet)
    \/ \E p \in {Kubelet, Worker} : SyncStep(p)
    \/ Mount(Kubelet)
    \/ PublishTrack(Kubelet)
    \/ Rollback(Kubelet)
    \/ UnpUnpublish
    \/ BundleChange
    \/ Reconcile
    \/ ReconcileSync
    \/ ReconcileSynced
    \/ ReconcileReturn

SpecUnpublish == InitDriver /\ [][NextUnpublish]_vars

\* C39 (as claimed): once NodeUnpublishVolume has returned success for a
\* volume, and until the next call for it arrives, the volume's root
\* directory does not exist, whatever a Reconcile does that read the
\* volume's record before the StopSync and is still running its Sync.
C39_UnpublishedVolumeStaysRemoved ==
    (/\ h.returned /\ h.op = "unpublish" /\ h.err = Nil
     /\ drv.pc[Kubelet] = "idle") =>
        ~dir[h.req.VolumeId].exists

(***************************************************************************)
(* SpecRender: BundleWriter.Sync of one volume, first with the bundle of   *)
(* one certificate, then with a bundle of any PEM blocks: certificates     *)
(* with equal and with different subject hashes, a certificate that does   *)
(* not parse, one whose subject cannot be hashed, and a block of another   *)
(* type.                                                                   *)
(***************************************************************************)
MaxBlocks == 3   \* PEM blocks of a bundle

BlockKinds ==
    {CertBlock(<<"p">>, "1"), CertBlock(<<"p">>, "2"), CertBlock(<<"q">>, "3"),
     [CertBlock(<<"p">>, "4") EXCEPT !.parses = FALSE],
     [CertBlock(<<"q">>, "5") EXCEPT !.hashes = FALSE],
     [CertBlock(<<"q">>, "6") EXCEPT !.Type = "X509 CRL"]}

BundleBlocks == UNION {[1..n -> BlockKinds] : n \in 0..MaxBlocks}

\* the volume's outputs: a concatenated file and a rehash directory, or one
\* of the two
RenderMetas ==
    LET V == ValidRequest("v1")
    IN  {publishMetadata(req).meta :
            req \in {V, [V EXCEPT !.files = <<>>], [V EXCEPT !.hashes = <<>>]}}

NoRender ==
    [ran |-> FALSE, blocks |-> <<>>, err |-> Nil, payload |-> <<>>,
     calls |-> <<>>, before |-> EmptyDir, ret |-> Nil]

InitRender ==
    /\ dir = [v \in VolumeIDs |-> EmptyDir]
    /\ w = [p \in {Worker} |-> IdleW]
    /\ h = NoRender
    /\ bundle = BundleData(1)
    /\ st = EmptyState
    /\ drv \in {[pc |-> "idle", meta |-> m] : m \in RenderMetas}

\* the Bundle object gets new content
RenderBundleChange ==
    /\ drv.pc = "idle"
    /\ bundle = BundleData(1)
    /\ bundle' \in BundleBlocks \ {bundle}
    /\ UNCHANGED <<dir, w, h, st, drv>>

\* Sync is called for the volume
RenderSync ==
    /\ drv.pc = "idle"
    /\ SyncBundle(Worker, drv.meta, bundle)
    /\ drv' = [drv EXCEPT !.pc = "Write"]
    /\ LET r == RenderOutputs(drv.meta.Outputs, bundle, <<>>, <<>>)
       IN  h' = [ran |-> TRUE, blocks |-> bundle, err |-> r.err,
                 payload |-> r.payload, calls |-> r.calls,
                 before |-> dir["v1"], ret |-> Nil]
    /\ UNCHANGED <<bundle, st>>

\* a step of its Write
RenderWriteStep ==
    /\ drv.pc = "Write"
    /\ WriteStep(Worker, FALSE)
    /\ UNCHANGED <<h, bundle, st, drv>>

\* Sync returns
RenderReturn ==
    /\ drv.pc = "Write"
    /\ w[Worker].pc = "done"
    /\ h' = [h EXCEPT !.ret = w[Worker].ret]
    /\ w' = [w EXCEPT ![Worker] = IdleW]
    /\ drv' = [drv EXCEPT !.pc = "idle"]
    /\ UNCHANGED <<dir, bundle, st>>

NextRender ==
    \/ RenderBundleChange
    \/ RenderSync
    \/ RenderWriteStep
    \/ RenderReturn

SpecRender == InitRender /\ [][NextRender]_vars

(***************************************************************************)
(* Properties of the driver (specification SpecDriver)                     *)
(***************************************************************************)
InWrite(p) == w[p].pc \notin {"idle", "done"}

\* no handler is running and no reconcile request is queued
Quiescent ==
    /\ \A p \in DriverProcs : drv.pc[p] = "idle"
    /\ ~drv.queue

\* C9 (as claimed): a Published volume ends up with the content rendered
\* from the latest bundle: once every handler has returned and no reconcile
\* request is left, its data directory holds exactly that payload.
C9_PublishedVolumeHoldsLatestBundle ==
    (Quiescent /\ drv.published["v1"]) =>
        /\ dir["v1"].data \in DOMAIN dir["v1"].snaps
        /\ HoldsContent(DataTree(dir["v1"]), Render(MetaFor("v1"), bundle))

\* C10 (as claimed): at most one Write is in progress on a volume's data
\* directory at any time.
C10_OneWritePerTargetDirectory ==
    \A v \in VolumeIDs :
        Cardinality({p \in DriverProcs : InWrite(p) /\ w[p].target = v}) <= 1

\* the errors NodePublishVolume returns from the checks of the request
ValidationErrors ==
    {"ephemeral", "readonly", "namespace", "bundle", "volume_mount_group",
     "concatenated-files", "openssl-rehash", "no outputs"}

\* the request is not for an ephemeral volume, or not read-only
BadKind(req) == req.ephemeral # "true" \/ ~req.readonly

\* C17: NodePublishVolume returns an error for every request that does not
\* mark the volume ephemeral or whose read-only flag is false, and no such
\* request gets past the checks towards Published.
C17_RejectsNotEphemeralOrNotReadOnly ==
    /\ (h.returned /\ BadKind(h.req)) => h.err \in ValidationErrors
    /\ \A p \in Handlers : drv.pc[p] # "idle" => ~BadKind(drv.req[p])

\* an ephemeral volume that is not read-only was requested and refused,
\* while a volume was Published
C17_Witness ==
    /\ h.returned
    /\ h.req.ephemeral = "true" /\ ~h.req.readonly
    /\ h.err = "readonly"
    /\ h.before.published

\* C18 (as claimed): NodePublishVolume rejects with a validation error every
\* request without a bundle name, before it creates a directory or loads a
\* bundle: no handler is past the checks with such a request, and the error
\* such a request gets is one of the checks.
C18_RejectsMissingBundleBeforeAnyEffect ==
    /\ \A p \in Handlers : drv.pc[p] # "idle" => drv.req[p].bundle # ""
    /\ (h.returned /\ h.req.bundle = "") => h.err \in ValidationErrors

\* the group of the request is absent or a number
GroupParses(req) == req.group = <<>> \/ ParseInt(req.group).err = Nil

\* the request names its outputs in just one of the two formats, as a list
\* the reader parses, and is valid in everything else
OneFormatOnly(req) ==
    /\ ~BadKind(req)
    /\ req.namespace # "" /\ req.bundle # ""
    /\ GroupParses(req)
    /\ \/ req.files # <<>> /\ req.hashes = <<>>
             /\ splitList(req.files).err = Nil
       \/ req.files = <<>> /\ req.hashes # <<>>
             /\ splitList(req.hashes).err = Nil

\* C19 (as claimed): a request that is otherwise valid and lists its outputs
\* in just one of the two formats passes the checks: the call does not
\* return one of their errors.
C19_OneFormatPassesValidation ==
    (h.returned /\ OneFormatOnly(h.req)) => h.err \notin ValidationErrors

\* C20 (as claimed): a NodePublishVolume call that fails a check of the
\* request changes nothing: the state store, the mount at the target path
\* and the volume's root directory are after the call as they were before.
C20_RejectedRequestChangesNothing ==
    (h.returned /\ h.err \in ValidationErrors) =>
        /\ h.after.st = h.before.st
        /\ h.after.mounted = h.before.mounted
        /\ h.after.exists = h.before.exists

(***************************************************************************)
(* Properties of Reconcile (specification SpecReconcile)                   *)
(***************************************************************************)
\* the elements of a sequence
Elems(q) == {q[i] : i \in 1..Len(q)}

\* C25: a Reconcile that has returned attempted a Sync for every volume
\* GetMetadataForBundle gave it, whatever failed before; it returned an error
\* exactly when the Sync of at least one volume failed, and that error holds
\* one failure for each volume whose Sync failed.
C25_ReconcileSyncsAllAndAggregates ==
    drv.last.ran =>
        /\ drv.last.tried = drv.last.listed
        /\ (drv.last.errs # <<>>) <=> (drv.last.failed # {})
        /\ Elems(drv.last.errs) = drv.last.failed
        /\ Len(drv.last.errs) = Cardinality(drv.last.failed)

\* a Reconcile of two volumes has returned: the Sync of one failed, the Sync
\* of the other was attempted after it and succeeded
C25_Witness ==
    /\ drv.last.ran
    /\ drv.last.listed = RecVolumes
    /\ Cardinality(drv.last.failed) = 1
    /\ \E v \in RecVolumes \ drv.last.failed :
           /\ dir[v].data \in DOMAIN dir[v].snaps
           /\ HoldsContent(DataTree(dir[v]), Render(MetaFor(v), bundle))
           /\ bundle > 1

(***************************************************************************)
(* Properties of the rendering (specification SpecRender)                  *)
(***************************************************************************)
IsCertificate(block) == block.Type = "CERTIFICATE"

\* the name the k-th certificate of a hash is to have under an output
RehashName(output, hash, k) ==
    TrimLeft(Clean(output.Path \o <<PathSeparator>> \o hash
                   \o <<".", ToString(k)>>))

\* the certificates before the i-th that have its subject hash
EarlierWithHash(certs, i) ==
    Cardinality({j \in 1..(i - 1) : certs[j].hash = certs[i].hash})

\* C26: when Sync has rendered a bundle of n certificates, each rehash
\* output has n distinct entries in the payload: the certificate that is the
\* k-th of its subject hash, counted from 0 in bundle order, is the data of
\* the entry "<hash>.<k>".
C26_RehashOneEntryPerCertificate ==
    (h.ran /\ h.err = Nil) =>
        LET certs == SelectSeq(h.blocks, IsCertificate)
        IN  \A i \in DOMAIN drv.meta.Outputs :
                LET output == drv.meta.Outputs[i]
                    names == {RehashName(output, certs[c].hash,
                                         EarlierWithHash(certs, c)) :
                                c \in DOMAIN certs}
                IN  output.Format = "OpenSSLRehash" =>
                        /\ Cardinality(names) = Len(certs)
                        /\ names \subseteq DOMAIN h.payload
                        /\ \A c \in DOMAIN certs :
                               h.payload[RehashName(output, certs[c].hash,
                                             EarlierWithHash(certs, c))].Data
                                   = certs[c].pem

\* a bundle was rendered in which a certificate stands between two
\* certificates of one other subject hash
C26_Witness ==
    /\ h.ran /\ h.err = Nil
    /\ \E i \in DOMAIN drv.meta.Outputs :
           drv.meta.Outputs[i].Format = "OpenSSLRehash"
    /\ Len(h.blocks) = 3
    /\ \A i \in 1..3 : IsCertificate(h.blocks[i])
    /\ h.blocks[1].hash = h.blocks[3].hash
    /\ h.blocks[1].hash # h.blocks[2].hash
    /\ h.blocks[1].pem # h.blocks[3].pem

\* the block ends the iteration of an output: a certificate that does not
\* parse, or one its callback fails for
Fails(block, output) ==
    /\ IsCertificate(block)
    /\ \/ ~block.parses
       \/ output.Format = "OpenSSLRehash" /\ ~block.hashes

FailingBlocks(blocks, output) ==
    {i \in DOMAIN blocks : Fails(blocks[i], output)}

Min(S) == CHOOSE x \in S : \A y \in S : x <= y

IsParsedCertificate(block) == IsCertificate(block) /\ block.parses

\* the certificates the callback of an output is to be called with: the
\* certificates up to the first block that ends the iteration
CallsOf(blocks, output) ==
    LET bad == FailingBlocks(blocks, output)
        upTo == IF bad = {} THEN Len(blocks) ELSE Min(bad)
    IN  SelectSeq(SubSeq(blocks, 1, upTo), IsParsedCertificate)

\* ... and of the outputs in order, up to the first one that fails
RECURSIVE ExpectedCalls(_, _)
ExpectedCalls(outputs, blocks) ==
    IF outputs = <<>> THEN <<>>
    ELSE IF FailingBlocks(blocks, Head(outputs)) # {}
    THEN CallsOf(blocks, Head(outputs))
    ELSE CallsOf(blocks, Head(outputs)) \o ExpectedCalls(Tail(outputs), blocks)

RenderErrors == {"ParseCertificate", "CertificateSubjectHash"}

\* C27: in a Sync the callback of an output runs once for each certificate
\* block in bundle order, blocks of other types left out, and stops at the
\* first certificate that does not parse or that the callback fails for;
\* Sync then returns that error without a call of Write, and the target
\* directory stays as it was.
C27_BadCertificateAbortsSync ==
    h.ran =>
        /\ h.calls = ExpectedCalls(drv.meta.Outputs, h.blocks)
        /\ (h.err # Nil) <=>
               (\E i \in DOMAIN drv.meta.Outputs :
                    FailingBlocks(h.blocks, drv.meta.Outputs[i]) # {})
        /\ h.err # Nil =>
               /\ h.err \in RenderErrors
               /\ dir["v1"] = h.before
               /\ h.ret \in {Nil, "error"}
               /\ drv.pc = "Write" =>
                      /\ w[Worker].pc = "done" /\ w[Worker].ret = "error"
                      /\ w[Worker].errAt = h.err

\* Sync has returned the error of a certificate that does not parse; before
\* that block the bundle has a block of another type and a certificate the
\* callback ran for, and the directory holds the files of the earlier Sync
C27_Witness ==
    /\ h.ran /\ h.err = "ParseCertificate" /\ h.ret = "error"
    /\ Len(h.blocks) = 3
    /\ ~IsCertificate(h.blocks[1])
    /\ IsParsedCertificate(h.blocks[2])
    /\ h.calls # <<>> /\ h.calls[1] = h.blocks[2]
    /\ h.before.data # NoLink
    /\ dir["v1"] = h.before

(***************************************************************************)
(* SpecValidate: validatePayload on payloads of one key, the key any       *)
(* string of up to MaxKeyLen characters out of '.', '/' and 'a', or one of *)
(* the two reserved names behind "./".                                     *)
(***************************************************************************)
MaxKeyLen == 4   \* characters of a key

KeyChars == {".", PathSeparator, "a"}

KeyDotData == <<".", PathSeparator>> \o dataDirName
KeyDotDataTmp == <<".", PathSeparator>> \o newDataDirName

ValidateKeys ==
    UNION {[1..n -> KeyChars] : n \in 0..MaxKeyLen}
        \cup {KeyDotData, KeyDotDataTmp}

NoValidate == [called |-> FALSE, key |-> <<>>, err |-> Nil, cleaned |-> <<>>]

InitValidate ==
    /\ h = NoValidate
    /\ dir = <<>> /\ w = <<>> /\ bundle = 0 /\ st = EmptyState /\ drv = 0

\* validatePayload(payload) returns an error, or the cleaned payload
ValidatePayloadCall ==
    /\ \E key \in ValidateKeys :
           LET payload == [k \in {key} |-> F1]
           IN  \E cp \in CleanPayloads(payload) :
                   h' = [called |-> TRUE, key |-> key,
                         err |-> PayloadError(payload),
                         cleaned |-> IF PayloadError(payload) # Nil
                                     THEN <<>> ELSE cp]
    /\ UNCHANGED <<dir, w, bundle, st, drv>>

NextValidate == ValidatePayloadCall

SpecValidate == InitValidate /\ [][NextValidate]_vars

(***************************************************************************)
(* Properties of validatePayload (specification SpecValidate)              *)
(***************************************************************************)
\* C28 (as claimed): no key validatePayload accepts begins, after cleaning,
\* with the reserved '..': the cleaned payload has no key such as ..data or
\* ..data_tmp or any other name that starts with '..'.
C28_NoAcceptedKeyCleansToDotDotName ==
    (h.called /\ h.err = Nil) =>
        \A k \in DOMAIN h.cleaned : ~HasPrefix(k, DotDot)

\* C29 (as claimed): every key of the cleaned payload validatePayload
\* returns is a place strictly inside the target directory: not '.', not
\* absolute, and without an element '..'.
C29_CleanedKeysStrictlyInside ==
    (h.called /\ h.err = Nil) =>
        \A k \in DOMAIN h.cleaned :
            /\ k # Dot
            /\ k # <<>> /\ k[1] # PathSeparator
            /\ \A i \in DOMAIN Split(k) : Split(k)[i] # DotDot

(***************************************************************************)
(* SpecOrder: the same Write twice, side by side: two callers, each with a *)
(* target directory of its own, make the same calls in the same order from *)
(* the same directory state, and each run visits the payload map in an     *)
(* order of its own.                                                       *)
(*   h.payload  the payload of the call both runs make                     *)
(*   h.called   the runs that have started that call                       *)
(***************************************************************************)
OrderRuns == {"run1", "run2"}

OrderDir(p) == IF p = "run1" THEN "d1" ELSE "d2"

NoOrderCall == [payload |-> <<>>, called |-> {}]

InitOrder ==
    /\ dir = [v \in {OrderDir(p) : p \in OrderRuns} |-> EmptyDir]
    /\ w = [p \in OrderRuns |-> IdleW]
    /\ h = NoOrderCall
    /\ bundle = 0 /\ st = EmptyState /\ drv = 0

\* one run starts a Write with a new payload; the two directories are the
\* same
OrderCall ==
    /\ h.called = {}
    /\ dir["d1"] = dir["d2"]
    /\ dir["d1"].nextTs <= MaxTs
    /\ \E p \in OrderRuns, payload \in Payloads :
           /\ WriteBegin(p, OrderDir(p), payload, FALSE)
           /\ h' = [payload |-> payload, called |-> {p}]
    /\ UNCHANGED <<bundle, st, drv>>

\* the other run starts the same Write
OrderSecondCall ==
    /\ \E p \in OrderRuns \ h.called :
           /\ h.called # {}
           /\ WriteBegin(p, OrderDir(p), h.payload, FALSE)
           /\ h' = [h EXCEPT !.called = @ \cup {p}]
    /\ UNCHANGED <<bundle, st, drv>>

OrderStep ==
    /\ \E p \in OrderRuns : WriteStep(p, FALSE)
    /\ UNCHANGED <<h, bundle, st, drv>>

\* both Writes have returned
OrderReturn ==
    /\ h.called = OrderRuns
    /\ \A p \in OrderRuns : w[p].pc = "done"
    /\ w' = [p \in OrderRuns |-> IdleW]
    /\ h' = NoOrderCall
    /\ UNCHANGED <<dir, bundle, st, drv>>

NextOrder == OrderCall \/ OrderSecondCall \/ OrderStep \/ OrderReturn

SpecOrder == InitOrder /\ [][NextOrder]_vars

(***************************************************************************)
(* Properties of the order of the payload map (specification SpecOrder)    *)
(***************************************************************************)
\* C30 (as claimed): from one directory state and with one payload, Write
\* has the same outcome for every order in which the payload map is
\* visited: when both runs have returned, they returned the same (success
\* or an error) and their directories are the same.
C30_OutcomeIndependentOfMapOrder ==
    (h.called = OrderRuns /\ \A p \in OrderRuns : w[p].pc = "done") =>
        /\ w["run1"].ret = w["run2"].ret
        /\ dir["d1"] = dir["d2"]

(***************************************************************************)
(* Properties of the node server (specification SpecNode)                  *)
(***************************************************************************)
\* the errors of the steps of Publishing
PublishingErrors == {"MkdirAll", "Sync", "IsMountPoint", "Mount", "Track"}

\* the bundle index of s lists the volume under some bundle
Indexed(s, id) ==
    \E b \in DOMAIN s.bundleToVolumeID : id \in s.bundleToVolumeID[b]

\* C21 (as claimed): when NodePublishVolume fails at a step of Publishing,
\* then on return the volume is in no set of the bundle index, the target
\* path is not mounted, the volume's root directory does not exist, and the
\* error is the one of the step that failed.
C21_FailedPublishLeavesVolumeAbsent ==
    (h.returned /\ h.op = "publish" /\ h.err \notin ValidationErrors \cup {Nil})
        => /\ h.err \in PublishingErrors
           /\ ~Indexed(h.after.st, h.req.VolumeId)
           /\ ~h.after.mounted
           /\ ~h.after.exists

Absent(snap, id) ==
    /\ \A b \in Bundles :
           \A meta \in GetMetadataForBundle(snap.st, b) : meta.VolumeID # id
    /\ ~snap.mounted
    /\ ~snap.exists

\* C23 (as claimed): NodeUnpublishVolume stops the sync before it unmounts
\* and unmounts before it deletes the root directory (a call that removed
\* the directory left no mount, a call that unmounted had stopped the sync),
\* and after a successful return no GetMetadataForBundle returns the volume,
\* the target path is not mounted and the root directory does not exist.
C23_UnpublishEndsAbsent ==
    (h.returned /\ h.op = "unpublish")
        => /\ (h.before.exists /\ ~h.after.exists) => ~h.after.mounted
           /\ (h.before.mounted /\ ~h.after.mounted)
                  => h.after.st = StopSync(h.before.st, h.req.VolumeId)
           /\ h.err = Nil => Absent(h.after, h.req.VolumeId)

\* C24 (as claimed): NodeUnpublishVolume succeeds from every partial state:
\* a call in which no I/O operation fails returns success and leaves the
\* volume Absent, whether or not the volume is tracked, the target path is
\* mounted or exists, and the root directory exists.
C24_UnpublishSucceedsFromEveryState ==
    (h.returned /\ h.op = "unpublish" /\ h.err \notin UnpublishFaults \ {Nil})
        => /\ h.err = Nil
           /\ Absent(h.after, h.req.VolumeId)

(***************************************************************************)
(* SpecStore: the volume state store on its own, over two volume IDs and   *)
(* two bundle names.  Here dir[id] is the root directory of volume id in   *)
(* the tmpfs (exists) with its metadata file (metadata); st is the State,  *)
(* or NoState while no InitializeState has succeeded.                      *)
(***************************************************************************)
StoreVolumeIDs == {"v1", "v2"}
StoreBundles == {"b1", "b2"}
NoState == [down |-> TRUE]
NoFile == [kind |-> "none"]
Corrupt == [kind |-> "garbage"]
NoVolume == [exists |-> FALSE, metadata |-> NoFile]

StoreMeta(id, b) ==
    [VolumeID |-> id, PodNamespace |-> "ns", Bundle |-> b,
     Outputs |-> << [Format |-> "ConcatenatedFile",
                     Path |-> JoinRoot(<<"c", "a">>),
                     UID |-> Nil, GID |-> Nil] >>]

\* versionedObjectEncoder.Encode: the storage version under its kind
Encode(meta) == [kind |-> "Metadata", object |-> meta]

\* versionedObjectEncoder.Decode
Decode(data) ==
    IF data.kind = "Metadata" THEN [err |-> Nil, meta |-> data.object]
    ELSE [err |-> "decode", meta |-> Nil]

\* a Track that records the volume before it writes the metadata file
TrackRecordsFirst(s, d, meta, fail) ==
    [err |-> IF fail # Nil \/ ~d[meta.VolumeID].exists THEN "error" ELSE Nil,
     st |-> IF fail = "encode" THEN s ELSE Track(s, meta),
     dir |-> IF fail # Nil \/ ~d[meta.VolumeID].exists THEN d
             ELSE [d EXCEPT ![meta.VolumeID].metadata = Encode(meta)]]

\* State.Track as a whole: Encode, os.WriteFile, then the map and the index.
\* fail: Nil, "encode", "write" (nothing written) or "torn" (part written)
TrackResult(s, d, meta, fail) ==
    IF fail = "encode" THEN [err |-> "error", st |-> s, dir |-> d]
    ELSE IF ~d[meta.VolumeID].exists \/ fail = "write"
    THEN [err |-> "error", st |-> s, dir |-> d]
    ELSE IF fail = "torn"
    THEN [err |-> "error", st |-> s,
          dir |-> [d EXCEPT ![meta.VolumeID].metadata = Corrupt]]
    ELSE [err |-> Nil, st |-> Track(s, meta),
          dir |-> [d EXCEPT ![meta.VolumeID].metadata = Encode(meta)]]

\* the volume directories os.ReadDir lists
Entries(d) == {id \in DOMAIN d : d[id].exists}

\* the loop of InitializeState over good entries
RECURSIVE LoadAll(_, _, _)
LoadAll(s, d, ids) ==
    IF ids = {} THEN s
    ELSE LET id == CHOOSE x \in ids : TRUE
             meta == Decode(d[id].metadata).meta
         IN  LoadAll([volumeToMetadata |-> (id :> meta) @@ s.volumeToMetadata,
                      bundleToVolumeID |->
                          IndexInsert(s.bundleToVolumeID, meta.Bundle, id)],
                     d, ids \ {id})

Unreadable(d, id) ==
    d[id].metadata = NoFile \/ Decode(d[id].metadata).err # Nil

\* an InitializeState that skips the volumes it cannot load
InitializeStateSkipping(d, fail) ==
    [err |-> Nil,
     st |-> LoadAll(EmptyState, d, {id \in Entries(d) : ~Unreadable(d, id)})]

\* InitializeState: any entry that cannot be read or decoded aborts it
InitializeState(d, fail) ==
    IF fail \/ \E id \in Entries(d) : Unreadable(d, id)
    THEN [err |-> "error", st |-> NoState]
    ELSE [err |-> Nil, st |-> LoadAll(EmptyState, d, Entries(d))]

\* h in SpecStore: the last operation (op, id, meta, ret), the store and the
\* directories before it (before), the records a caller expects to be
\* tracked (tracked), and whether only Track calls were made since the
\* store was last initialized (onlyTrack)
StoreH(op, id, meta, ret, tracked, onlyTrack) ==
    [op |-> op, id |-> id, meta |-> meta, ret |-> ret,
     before |-> [st |-> st, dir |-> dir, onlyTrack |-> h.onlyTrack],
     tracked |-> tracked, onlyTrack |-> onlyTrack]

InitStore ==
    /\ dir = [id \in StoreVolumeIDs |-> NoVolume]
    /\ st = EmptyState
    /\ h = [op |-> Nil, id |-> Nil, meta |-> Nil, ret |-> Nil,
            before |-> [st |-> EmptyState,
                        dir |-> [id \in StoreVolumeIDs |-> NoVolume],
                        onlyTrack |-> TRUE],
            tracked |-> <<>>, onlyTrack |-> TRUE]
    /\ w = <<>>
    /\ bundle = 0
    /\ drv = 0

StoreUp == st # NoState

\* os.MkdirAll of a volume's directories (NodePublishVolume)
MkdirVolume ==
    \E id \in StoreVolumeIDs :
        /\ StoreUp
        /\ ~dir[id].exists
        /\ dir' = [dir EXCEPT ![id].exists = TRUE]
        /\ h' = StoreH("Mkdir", id, Nil, Nil, h.tracked, h.onlyTrack)
        /\ UNCHANGED <<st, w, bundle, drv>>

TrackCall ==
    \E id \in StoreVolumeIDs, b \in StoreBundles,
       fail \in {Nil, "encode", "write", "torn"} :
        LET meta == StoreMeta(id, b)
            r == TrackResult(st, dir, meta, fail)
        IN  /\ StoreUp
            /\ st' = r.st
            /\ dir' = r.dir
            /\ h' = StoreH("Track", id, meta, IF r.err = Nil THEN "ok" ELSE "error",
                           IF r.err = Nil THEN (id :> meta) @@ h.tracked
                           ELSE h.tracked,
                           h.onlyTrack /\ fail # "torn")
            /\ UNCHANGED <<w, bundle, drv>>

StopSyncCall ==
    \E id \in StoreVolumeIDs :
        /\ StoreUp
        /\ st' = StopSync(st, id)
        /\ h' = StoreH("StopSync", id, Nil, "ok",
                       Restrict(h.tracked, DOMAIN h.tracked \ {id}), FALSE)
        /\ UNCHANGED <<dir, w, bundle, drv>>

\* the os.RemoveAll of the volume's root directory that follows StopSync in
\* NodeUnpublishVolume and in the rollback of NodePublishVolume
RemoveVolume ==
    /\ StoreUp
    /\ h.op = "StopSync"
    /\ dir' = [dir EXCEPT ![h.id] = NoVolume]
    /\ h' = StoreH("RemoveAll", h.id, Nil, "ok", h.tracked, FALSE)
    /\ UNCHANGED <<st, w, bundle, drv>>

\* the driver starts, or starts again: InitializeState
Restart ==
    \E fail \in BOOLEAN :
        LET r == InitializeState(dir, fail)
        IN  /\ st' = r.st
            /\ h' = StoreH("InitializeState", Nil, Nil,
                           IF r.err = Nil THEN "ok" ELSE "error",
                           IF r.err = Nil
                           THEN [id \in Entries(dir) |->
                                    Decode(dir[id].metadata).meta]
                           ELSE <<>>,
                           r.err = Nil)
            /\ UNCHANGED <<dir, w, bundle, drv>>

NextStore ==
    MkdirVolume \/ TrackCall \/ StopSyncCall \/ RemoveVolume \/ Restart

SpecStore == InitStore /\ [][NextStore]_vars

(***************************************************************************)
(* Properties of the state store (specification SpecStore)                 *)
(***************************************************************************)
\* the records a caller expects under a bundle name
TrackedFor(b) ==
    {h.tracked[id] : id \in {x \in DOMAIN h.tracked : h.tracked[x].Bundle = b}}

InIndex(s, id) ==
    \E k \in DOMAIN s.bundleToVolumeID : id \in s.bundleToVolumeID[k]

\* C11 (as claimed): GetMetadataForBundle(b) returns exactly the tracked
\* records whose Bundle is b, also after a volume ID was tracked again
\* under another bundle name.
C11_LookupReturnsTrackedOfBundle ==
    StoreUp =>
        \A b \in StoreBundles :
            /\ GetMetadataForBundle(st, b) = TrackedFor(b)
            /\ \A m \in GetMetadataForBundle(st, b) : m.Bundle = b

\* C12 (as claimed): StopSync(id) removes id from the volume map and from
\* the bundle index, leaves the other volumes' entries alone and does not
\* touch the metadata file.
C12_StopSyncRemovesFromMapAndIndex ==
    h.op = "StopSync" =>
        /\ h.id \notin DOMAIN st.volumeToMetadata
        /\ ~InIndex(st, h.id)
        /\ \A id \in DOMAIN h.before.st.volumeToMetadata \ {h.id} :
               /\ id \in DOMAIN st.volumeToMetadata
               /\ st.volumeToMetadata[id] = h.before.st.volumeToMetadata[id]
               /\ InIndex(st, id) = InIndex(h.before.st, id)
        /\ dir = h.before.dir

\* C13 (as claimed): a store built by Track calls and initialized again from
\* the same root answers GetMetadataForBundle as before the restart, and
\* tracks exactly the volume directories that hold a metadata file.
C13_RestartRecoversTrackedRecords ==
    (h.op = "InitializeState" /\ h.ret = "ok") =>
        /\ DOMAIN st.volumeToMetadata =
               {id \in StoreVolumeIDs : dir[id].metadata # NoFile}
        /\ (h.before.onlyTrack /\ h.before.st # NoState) =>
               \A b \in StoreBundles :
                   GetMetadataForBundle(st, b) =
                       GetMetadataForBundle(h.before.st, b)

\* C14: a Track that fails (encoding, or the write of the metadata file)
\* returns an error and changes neither the volume map nor the bundle index;
\* a record that GetMetadataForBundle returns has its metadata file written.
C14_FailedTrackChangesNoState ==
    /\ (h.op = "Track" /\ h.ret = "error") => st = h.before.st
    /\ (h.op = "Track" /\ h.ret = "ok") =>
           /\ dir[h.id].metadata = Encode(h.meta)
           /\ h.meta \in GetMetadataForBundle(st, h.meta.Bundle)

\* the write of the metadata file of a second volume failed part-way
C14_Witness ==
    /\ h.op = "Track" /\ h.ret = "error"
    /\ dir[h.id].exists
    /\ dir[h.id].metadata = Corrupt
    /\ h.id \notin DOMAIN st.volumeToMetadata
    /\ DOMAIN st.volumeToMetadata # {}

\* C15: no bundle name of the index is mapped to an empty set.
C15_IndexHasNoEmptySet ==
    StoreUp =>
        \A k \in DOMAIN st.bundleToVolumeID : st.bundleToVolumeID[k] # {}

\* StopSync took the last volume of a bundle out of the index, whose key is
\* gone, while the other bundle keeps its volume
C15_Witness ==
    /\ h.op = "StopSync"
    /\ \E k \in DOMAIN h.before.st.bundleToVolumeID :
           /\ h.before.st.bundleToVolumeID[k] = {h.id}
           /\ k \notin DOMAIN st.bundleToVolumeID
    /\ DOMAIN st.bundleToVolumeID # {}

\* C16: InitializeState returns an error and no State when the metadata of
\* any volume directory is missing or does not decode; a State it returns
\* holds every volume directory.
C16_InitializeStateFailsAsAWhole ==
    h.op = "InitializeState" =>
        /\ (\E id \in StoreVolumeIDs :
                dir[id].exists /\ dir[id].metadata \in {NoFile, Corrupt})
               => (h.ret = "error" /\ st = NoState)
        /\ h.ret = "ok" =>
               DOMAIN st.volumeToMetadata =
                   {id \in StoreVolumeIDs : dir[id].exists}

\* initialization failed over one corrupt metadata file next to a good one
C16_Witness ==
    /\ h.op = "InitializeState" /\ h.ret = "error"
    /\ \E id \in StoreVolumeIDs : dir[id].metadata = Corrupt
    /\ \E id \in StoreVolumeIDs : dir[id].metadata.kind = "Metadata"

\* C38 (as claimed): at every point at which the driver can die, every
\* volume directory under the tmpfs root holds a metadata file that can be
\* read and decoded, so that an InitializeState that meets no I/O error
\* succeeds.
C38_RestartSucceedsAfterCrash ==
    StoreUp =>
        /\ \A id \in Entries(dir) : ~Unreadable(dir, id)
        /\ InitializeState(dir, FALSE).err = Nil

====
